---- MODULE Spec2Model ----
(***************************************************************************)
(* Model of the hotness engine of src/src/utils/helpers.js                 *)
(* (calculateHotness, calculateDiscussionIntensity, getWhyItsHot,          *)
(* extractTrendingTopics, getTopicSizeClass, formatRelativeTime), of the   *)
(* Hacker News service (fetchStories) and of the App controller of         *)
(* src/src/app/App.js.                                                     *)
(*                                                                         *)
(* JavaScript numbers are modelled as exact rationals n/d with the special *)
(* values NaN, +Infinity and -Infinity; null and undefined are values of   *)
(* their own, converted with ToNumber exactly where the code's operators   *)
(* convert them.  Time is counted in milliseconds, as Date does; the       *)
(* instants the model draws are whole multiples of Quantum (36 s, one      *)
(* hundredth of an hour).                                                  *)
(***************************************************************************)
EXTENDS Integers, Sequences, FiniteSets, TLC

VARIABLES now, hot, disc, why, tt, sz, core, hn, state, flight, view, rel

vars == <<now, hot, disc, why, tt, sz, core, hn, state, flight, view, rel>>

(***************************************************************************)
(* Bounds of the model.                                                    *)
(***************************************************************************)
MaxPoints == 3
MaxAgeHours == 3
MaxTicks == 2
MaxComments == 12
MaxStories == 3
MaxLimit == 1
MaxSizeWeight == 6
MaxIds == 3
MaxLoads == 2
MaxBatches == 1
MaxExtensions == 1

(***************************************************************************)
(* JavaScript values.                                                      *)
(***************************************************************************)
Abs(x) == IF x < 0 THEN -x ELSE x

RECURSIVE GCD(_, _)
GCD(a, b) == IF b = 0 THEN a ELSE GCD(b, a % b)

\* The number n/d (d # 0), in lowest terms with a positive denominator.
Num(n, d) ==
    LET s == IF d < 0 THEN -1 ELSE 1
        g == GCD(Abs(n), Abs(d))
    IN  [t |-> "num", n |-> (s * n) \div g, d |-> (s * d) \div g]

NaN == [t |-> "nan", n |-> 0, d |-> 1]
Infinity(sign) == [t |-> "inf", n |-> sign, d |-> 1]
Null == [t |-> "null", n |-> 0, d |-> 1]
Undefined == [t |-> "undefined", n |-> 0, d |-> 1]

\* ToNumber of the language: null is 0, undefined is NaN.
ToNumber(v) ==
    CASE v.t = "null" -> Num(0, 1)
      [] v.t = "undefined" -> NaN
      [] OTHER -> v

\* !v for a number, null or undefined.
Falsy(v) ==
    \/ v.t \in {"null", "undefined", "nan"}
    \/ v.t = "num" /\ v.n = 0

Sign(x) == IF x.n > 0 THEN 1 ELSE IF x.n < 0 THEN -1 ELSE 0

\* a < b on numbers that are not NaN (infinities included).
NumLess(x, y) ==
    CASE x.t = "inf" /\ y.t = "inf" -> x.n < y.n
      [] x.t = "inf" -> x.n < 0
      [] y.t = "inf" -> y.n > 0
      [] OTHER -> x.n * y.d < y.n * x.d

\* The relational operators: every comparison with NaN is false.
JsLt(a, b) ==
    LET x == ToNumber(a)
        y == ToNumber(b)
    IN  /\ x.t # "nan"
        /\ y.t # "nan"
        /\ NumLess(x, y)

JsGt(a, b) == JsLt(b, a)

JsGe(a, b) ==
    LET x == ToNumber(a)
        y == ToNumber(b)
    IN  /\ x.t # "nan"
        /\ y.t # "nan"
        /\ ~NumLess(x, y)

JsLe(a, b) == JsGe(b, a)

\* a - b
JsSub(a, b) ==
    LET x == ToNumber(a)
        y == ToNumber(b)
    IN  CASE x.t = "nan" \/ y.t = "nan" -> NaN
          [] x.t = "inf" /\ y.t = "inf" -> IF x.n = y.n THEN NaN ELSE x
          [] x.t = "inf" -> x
          [] y.t = "inf" -> Infinity(-y.n)
          [] OTHER -> Num(x.n * y.d - y.n * x.d, x.d * y.d)

\* a * b
JsMul(a, b) ==
    LET x == ToNumber(a)
        y == ToNumber(b)
    IN  CASE x.t = "nan" \/ y.t = "nan" -> NaN
          [] x.t = "inf" \/ y.t = "inf" ->
                IF Sign(x) * Sign(y) = 0 THEN NaN ELSE Infinity(Sign(x) * Sign(y))
          [] OTHER -> Num(x.n * y.n, x.d * y.d)

\* a / b: a division by zero gives an infinity, 0 / 0 gives NaN.
JsDiv(a, b) ==
    LET x == ToNumber(a)
        y == ToNumber(b)
    IN  CASE x.t = "nan" \/ y.t = "nan" -> NaN
          [] x.t = "inf" /\ y.t = "inf" -> NaN
          [] x.t = "inf" -> Infinity(IF Sign(y) < 0 THEN -x.n ELSE x.n)
          [] y.t = "inf" -> Num(0, 1)
          [] y.n = 0 -> IF x.n = 0 THEN NaN ELSE Infinity(Sign(x))
          [] OTHER -> Num(x.n * y.d, x.d * y.n)

\* Math.max(a, b): NaN when either argument is NaN.
MathMax(a, b) ==
    LET x == ToNumber(a)
        y == ToNumber(b)
    IN  CASE x.t = "nan" \/ y.t = "nan" -> NaN
          [] NumLess(x, y) -> y
          [] OTHER -> x

\* Math.round(a): the nearest integer, a half rounded towards +Infinity.
MathRound(a) ==
    LET x == ToNumber(a)
    IN  IF x.t = "num" THEN Num((2 * x.n + x.d) \div (2 * x.d), 1) ELSE x

\* Math.round(a * 10) / 10
RoundToTenth(a) == JsDiv(MathRound(JsMul(a, Num(10, 1))), Num(10, 1))

(***************************************************************************)
(* Time and the values the model draws.                                    *)
(***************************************************************************)
MsPerHour == 1000 * 60 * 60

\* The step of the model's instants: a hundredth of an hour, in ms.
Quantum == MsPerHour \div 100

\* The clock when the model starts, in ms.
Now0 == 3000 * Quantum

\* Ages, in quanta, of the dates the model draws (negative: in the future).
AgeSamples ==
    {-100, -1, 0, 1, 9, 10, 11, 195, 199, 200, 201, 799, 800, 801,
     1000, 1001, 2000, 2001}
        \cup {100 * h : h \in 0..MaxAgeHours}

DateOf(ms) == [t |-> "date", ms |-> ms]
InvalidDate == [t |-> "invalidDate", ms |-> 0]

ValidDates == {DateOf(Now0 - a * Quantum) : a \in AgeSamples}

\* What a caller may pass as timestamp: Dates, an invalid Date, null,
\* undefined, and values that are no Date (the number 0, a number, a string).
NonDates ==
    {[t |-> "null", ms |-> 0], [t |-> "undefined", ms |-> 0],
     [t |-> "number", ms |-> 0], [t |-> "number", ms |-> Now0],
     [t |-> "string", ms |-> 0]}

Timestamps == ValidDates \cup {InvalidDate} \cup NonDates

PointValues ==
    {Num(p, 1) : p \in (0..MaxPoints) \cup {10, 50, 100, 200, 500, 1000}}
        \cup {Null}

\* !timestamp
TimestampFalsy(ts) ==
    \/ ts.t \in {"null", "undefined"}
    \/ ts.t = "number" /\ ts.ms = 0

\* timestamp instanceof Date
InstanceofDate(ts) == ts.t \in {"date", "invalidDate"}

\* The time value of a Date: NaN for an invalid Date.
TimeValue(ts) == IF ts.t = "date" THEN Num(ts.ms, 1) ELSE NaN

(***************************************************************************)
(* calculateHotness                                                        *)
(***************************************************************************)
MinHoursOld == Num(1, 10)

FireScore == 100
HotScore == 50
WarmScore == 20
MildScore == 5
FreshHours == 2

\* As HoursOld, with the floor written as one hour.
HoursOldFloorOneHour(nowMs, timestamp) ==
    MathMax(JsDiv(JsSub(Num(nowMs, 1), TimeValue(timestamp)), Num(MsPerHour, 1)),
            Num(1, 1))

\* Math.max((now - timestamp) / (1000 * 60 * 60), 0.1)
HoursOld(nowMs, timestamp) ==
    MathMax(JsDiv(JsSub(Num(nowMs, 1), TimeValue(timestamp)), Num(MsPerHour, 1)),
            MinHoursOld)

\* points / hoursOld
Velocity(points, hoursOld) == JsDiv(points, hoursOld)

\* As RecencyMultiplier, without the clamp at 1.
RecencyMultiplierUnclamped(hoursOld) ==
    JsSub(Num(3, 1), JsDiv(hoursOld, Num(4, 1)))

\* Math.max(1, 3 - (hoursOld / 4))
RecencyMultiplier(hoursOld) ==
    MathMax(Num(1, 1), JsSub(Num(3, 1), JsDiv(hoursOld, Num(4, 1))))

\* velocity * recencyMultiplier
Score(velocity, recencyMultiplier) == JsMul(velocity, recencyMultiplier)

\* As HotnessLevel, with > where the code has >=.
HotnessLevelStrict(score) ==
    IF JsGt(score, Num(FireScore, 1)) THEN "fire"
    ELSE IF JsGt(score, Num(HotScore, 1)) THEN "hot"
    ELSE IF JsGt(score, Num(WarmScore, 1)) THEN "warm"
    ELSE IF JsGt(score, Num(MildScore, 1)) THEN "mild"
    ELSE "cold"

\* The if / else-if chain over the score.
HotnessLevel(score) ==
    IF JsGe(score, Num(FireScore, 1)) THEN "fire"
    ELSE IF JsGe(score, Num(HotScore, 1)) THEN "hot"
    ELSE IF JsGe(score, Num(WarmScore, 1)) THEN "warm"
    ELSE IF JsGe(score, Num(MildScore, 1)) THEN "mild"
    ELSE "cold"

NullReason == [kind |-> "null", icon |-> "", pts |-> Num(0, 1)]
VelocityReason(icon, velocity) ==
    [kind |-> "velocity", icon |-> icon, pts |-> MathRound(velocity)]
FreshReason == [kind |-> "fresh", icon |-> "new", pts |-> Num(0, 1)]

\* As HotnessReason, with the Fresh label on every mild story.
HotnessReasonAlwaysFresh(level, velocity, hoursOld) ==
    CASE level = "fire" -> VelocityReason("fire", velocity)
      [] level = "hot" -> VelocityReason("fire", velocity)
      [] level = "warm" -> VelocityReason("chart", velocity)
      [] level = "mild" -> FreshReason
      [] OTHER -> NullReason

\* The reason assigned in the branch of the chain that sets `level`.
HotnessReason(level, velocity, hoursOld) ==
    CASE level = "fire" -> VelocityReason("fire", velocity)
      [] level = "hot" -> VelocityReason("fire", velocity)
      [] level = "warm" -> VelocityReason("chart", velocity)
      [] level = "mild" ->
            IF JsLt(hoursOld, Num(FreshHours, 1)) THEN FreshReason ELSE NullReason
      [] OTHER -> NullReason

\* The object returned for a missing timestamp; it has no hoursOld.
Sentinel ==
    [score |-> Num(0, 1), velocity |-> Num(0, 1), level |-> "cold",
     reason |-> NullReason, hoursOld |-> Undefined]

\* As HotnessResult, with the velocity returned in the score field too.
HotnessResultScoreFromVelocity(score, velocity, level, reason, hoursOld) ==
    [score |-> RoundToTenth(velocity),
     velocity |-> RoundToTenth(velocity),
     level |-> level,
     reason |-> reason,
     hoursOld |-> RoundToTenth(hoursOld)]

\* The object returned at the end: the numbers rounded to one decimal.
HotnessResult(score, velocity, level, reason, hoursOld) ==
    [score |-> RoundToTenth(score),
     velocity |-> RoundToTenth(velocity),
     level |-> level,
     reason |-> reason,
     hoursOld |-> RoundToTenth(hoursOld)]

\* The guard of the early return.
TimestampMissing(timestamp) ==
    TimestampFalsy(timestamp) \/ ~InstanceofDate(timestamp)

\* One call of calculateHotness at clock nowMs: its locals and its result.
calculateHotness(points, timestamp, nowMs) ==
    IF TimestampMissing(timestamp)
    THEN [early |-> TRUE, hoursOld |-> Undefined, velocity |-> Undefined,
          recencyMultiplier |-> Undefined, score |-> Undefined,
          result |-> Sentinel]
    ELSE
        LET hoursOld == HoursOld(nowMs, timestamp)
            velocity == Velocity(points, hoursOld)
            recencyMultiplier == RecencyMultiplier(hoursOld)
            score == Score(velocity, recencyMultiplier)
            level == HotnessLevel(score)
        IN  [early |-> FALSE, hoursOld |-> hoursOld, velocity |-> velocity,
             recencyMultiplier |-> recencyMultiplier, score |-> score,
             result |->
                HotnessResult(score, velocity, level,
                              HotnessReason(level, velocity, hoursOld),
                              hoursOld)]

(***************************************************************************)
(* calculateDiscussionIntensity                                            *)
(***************************************************************************)
MinComments == 10
IntenseComments == 200
ControversialComments == 50
ControversialRatio == 2
ActiveComments == 100

NullDiscussion ==
    [level |-> "null", reason |-> [kind |-> "null", n |-> Num(0, 1)]]

Discussion(level, kind, commentCount) ==
    [level |-> level, reason |-> [kind |-> kind, n |-> commentCount]]

\* !commentCount || commentCount < 10
DiscussionGuard(commentCount) ==
    Falsy(commentCount) \/ JsLt(commentCount, Num(MinComments, 1))

\* As DiscussionRatio, without the test of points.
DiscussionRatioUnguarded(commentCount, points) == JsDiv(commentCount, points)

\* points > 0 ? commentCount / points : 0
DiscussionRatio(commentCount, points) ==
    IF JsGt(points, Num(0, 1)) THEN JsDiv(commentCount, points) ELSE Num(0, 1)

\* As DiscussionCascade, with the active branch tried before the
\* controversial one.
DiscussionCascadeActiveFirst(commentCount, ratio) ==
    IF JsGe(commentCount, Num(IntenseComments, 1))
    THEN Discussion("intense", "comments", commentCount)
    ELSE IF JsGe(commentCount, Num(ActiveComments, 1))
    THEN Discussion("active", "discussing", commentCount)
    ELSE IF /\ JsGt(ratio, Num(ControversialRatio, 1))
            /\ JsGe(commentCount, Num(ControversialComments, 1))
    THEN Discussion("controversial", "debate", Num(0, 1))
    ELSE NullDiscussion

\* The if / else-if chain after the guard.
DiscussionCascade(commentCount, ratio) ==
    IF JsGe(commentCount, Num(IntenseComments, 1))
    THEN Discussion("intense", "comments", commentCount)
    ELSE IF /\ JsGt(ratio, Num(ControversialRatio, 1))
            /\ JsGe(commentCount, Num(ControversialComments, 1))
    THEN Discussion("controversial", "debate", Num(0, 1))
    ELSE IF JsGe(commentCount, Num(ActiveComments, 1))
    THEN Discussion("active", "discussing", commentCount)
    ELSE NullDiscussion

\* As calculateDiscussionIntensity, with its two parameters taken in the
\* other order.
calculateDiscussionIntensitySwapped(commentCount, points) ==
    IF DiscussionGuard(points)
    THEN NullDiscussion
    ELSE DiscussionCascade(points, DiscussionRatio(points, commentCount))

calculateDiscussionIntensity(commentCount, points) ==
    IF DiscussionGuard(commentCount)
    THEN NullDiscussion
    ELSE DiscussionCascade(commentCount, DiscussionRatio(commentCount, points))

CommentValues ==
    {Num(c, 1) : c \in (0..MaxComments)
                        \cup {49, 50, 51, 60, 99, 100, 120, 199, 200, 250}}
        \cup {Null, Undefined, NaN}

DiscussionPointValues ==
    {Num(p, 1) : p \in {-1, 0, 1, 20, 24, 25, 30, 50, 60, 100, 1000}}
        \cup {Null}

(***************************************************************************)
(* State: the clock and the last call of each function.                    *)
(***************************************************************************)
NoCall == [early |-> TRUE, hoursOld |-> Undefined, velocity |-> Undefined,
           recencyMultiplier |-> Undefined, score |-> Undefined,
           result |-> Sentinel]

NoHot ==
    [called |-> FALSE, points |-> Null, timestamp |-> [t |-> "null", ms |-> 0],
     at |-> Now0, run |-> NoCall]

NoDisc ==
    [called |-> FALSE, commentCount |-> Null, points |-> Null,
     ratio |-> Undefined, result |-> NullDiscussion]

(***************************************************************************)
(* getWhyItsHot                                                            *)
(***************************************************************************)
\* A reason string, or null: the strings of the two engines in one shape.
NullText == [kind |-> "null", icon |-> "", n |-> Num(0, 1)]
HotnessText(reason) ==
    [kind |-> reason.kind, icon |-> reason.icon, n |-> reason.pts]
DiscussionText(reason) ==
    [kind |-> reason.kind, icon |-> IF reason.kind = "null" THEN "" ELSE "speech",
     n |-> reason.n]

\* A field of a story: absent (undefined), or present with a value.
Absent(placeholder) == [present |-> FALSE, value |-> placeholder]
Present(value) == [present |-> TRUE, value |-> value]

\* story.hotness?.reason: undefined (here null) when there is no hotness.
HotnessReasonOf(story) ==
    IF story.hotness.present THEN HotnessText(story.hotness.value.reason)
    ELSE NullText

\* story.discussion?.reason: undefined (here null) when there is no
\* discussion or the discussion is null.
DiscussionReasonOf(story) ==
    IF story.discussion.present THEN DiscussionText(story.discussion.value.reason)
    ELSE NullText

\* The truth value of a reason: a non-empty string is true, null is false.
TextTruthy(text) == text.kind # "null"

\* As getWhyItsHot, with the discussion reason tried first.
getWhyItsHotDiscussionFirst(story) ==
    IF TextTruthy(DiscussionReasonOf(story)) THEN DiscussionReasonOf(story)
    ELSE IF TextTruthy(HotnessReasonOf(story)) THEN HotnessReasonOf(story)
    ELSE NullText

getWhyItsHot(story) ==
    IF TextTruthy(HotnessReasonOf(story)) THEN HotnessReasonOf(story)
    ELSE IF TextTruthy(DiscussionReasonOf(story)) THEN DiscussionReasonOf(story)
    ELSE NullText

\* The hotness fields drawn: none (a NewsAPI article), or what
\* calculateHotness returned when the story was formatted.
HotnessFields ==
    {Absent(Sentinel)}
        \cup {Present(calculateHotness(Num(p, 1), DateOf(Now0 - a * Quantum),
                                       Now0).result) :
                 p \in (0..MaxPoints) \cup {10, 50, 1000},
                 a \in {0, 100, 195, 200, 1000}}

\* The discussion fields drawn: none, or what calculateDiscussionIntensity
\* returned (null included).
DiscussionFields ==
    {Absent(NullDiscussion)}
        \cup {Present(calculateDiscussionIntensity(Num(c, 1), Num(p, 1))) :
                 c \in {0, 9, 60, 120, 250}, p \in {0, 20, 1000}}

(***************************************************************************)
(* extractTrendingTopics                                                   *)
(***************************************************************************)
STOP_WORDS ==
    {"the", "a", "an", "and", "or", "but", "in", "on", "at", "to", "for",
     "of", "with", "by", "from", "is", "it", "as", "be", "was", "are",
     "been", "being", "have", "has", "had", "do", "does", "did", "will",
     "would", "could", "should", "may", "might", "must", "shall", "can",
     "this", "that", "these", "those", "i", "you", "he", "she", "we",
     "they", "what", "which", "who", "whom", "when", "where", "why", "how",
     "all", "each", "every", "both", "few", "more", "most", "other",
     "some", "such", "no", "nor", "not", "only", "own", "same", "so",
     "than", "too", "very", "just", "about", "into", "through", "during",
     "before", "after", "above", "below", "between", "under", "again",
     "further", "then", "once", "here", "there", "any", "my", "your",
     "its", "our", "their", "out", "up", "down", "off", "over", "now",
     "new", "also", "get", "got", "getting", "show", "ask", "hn", "via",
     "using", "use", "used", "make", "made", "video", "pdf", "why", "how",
     "im", "i'm", "dont", "don't", "cant", "can't", "wont", "won't",
     "like", "need", "want", "way", "one", "two", "first", "last", "year",
     "years", "day", "days", "time", "still"}

TECH_KEYWORDS ==
    {"ai", "ml", "gpt", "llm", "openai", "chatgpt", "claude", "gemini",
     "rust", "python", "javascript", "typescript", "golang", "swift",
     "react", "vue", "angular", "node", "deno", "bun", "linux", "windows",
     "macos", "android", "ios", "aws", "azure", "gcp", "cloud",
     "kubernetes", "docker", "blockchain", "crypto", "bitcoin", "ethereum",
     "web3", "startup", "vc", "funding", "ipo", "acquisition", "apple",
     "google", "microsoft", "meta", "amazon", "nvidia", "tesla",
     "security", "privacy", "hack", "breach", "vulnerability",
     "opensource", "github", "gitlab", "database", "sql", "postgres",
     "mongodb", "redis", "api", "sdk", "framework", "library"}

MinWordLength == 2
MaxWordLength == 20
MinTopicCount == 2
DefaultLimit == 15
TechBonusFactor == Num(3, 2)

UpperCase == "ABCDEFGHIJKLMNOPQRSTUVWXYZ"
LowerCase == "abcdefghijklmnopqrstuvwxyz"
DigitChars == "0123456789"

CharAt(s, i) == SubSeq(s, i, i)
InString(c, s) == \E i \in 1..Len(s) : CharAt(s, i) = c

\* \w of the regular expressions: a letter, a digit or _.
IsWordChar(c) == InString(c, LowerCase \o UpperCase \o DigitChars \o "_")

\* \s of the regular expressions.
IsSpace(c) == c \in {" ", "\t", "\n"}

LowerChar(c) ==
    IF InString(c, UpperCase)
    THEN CharAt(LowerCase, CHOOSE i \in 1..Len(UpperCase) : CharAt(UpperCase, i) = c)
    ELSE c

\* title.toLowerCase(), a half of the string at a time.
RECURSIVE ToLowerCase(_)
ToLowerCase(s) ==
    IF Len(s) = 0 THEN ""
    ELSE IF Len(s) = 1 THEN LowerChar(s)
    ELSE ToLowerCase(SubSeq(s, 1, Len(s) \div 2))
            \o ToLowerCase(SubSeq(s, Len(s) \div 2 + 1, Len(s)))

\* .replace(/[^\w\s-]/g, ' '), a half of the string at a time.
RECURSIVE ReplacePunctuation(_)
ReplacePunctuation(s) ==
    IF Len(s) = 0 THEN ""
    ELSE IF Len(s) = 1
    THEN IF IsWordChar(s) \/ IsSpace(s) \/ s = "-" THEN s ELSE " "
    ELSE ReplacePunctuation(SubSeq(s, 1, Len(s) \div 2))
            \o ReplacePunctuation(SubSeq(s, Len(s) \div 2 + 1, Len(s)))

\* .split(/\s+/): the pieces between the runs of whitespace, in order; a
\* string that starts or ends with whitespace gives an empty first or last
\* piece, and the empty string gives one empty piece.
SplitWhitespace(s) ==
    LET space == [i \in 1..Len(s) |-> IsSpace(CharAt(s, i))]
        starts == {i \in 1..Len(s) : ~space[i] /\ (i = 1 \/ space[i - 1])}
        start(k) == CHOOSE i \in starts :
                        Cardinality({j \in starts : j < i}) = k - 1
        end(i) == CHOOSE j \in i..Len(s) :
                        /\ \A m \in i..j : ~space[m]
                        /\ (j = Len(s) \/ space[j + 1])
        pieces == [k \in 1..Cardinality(starts) |->
                        SubSeq(s, start(k), end(start(k)))]
    IN  (IF Len(s) = 0 \/ space[1] THEN <<"">> ELSE <<>>)
            \o pieces
            \o (IF Len(s) > 0 /\ space[Len(s)] /\ starts # {} THEN <<"">> ELSE <<>>)

\* /^\d+$/.test(word)
AllDigits(word) ==
    /\ Len(word) >= 1
    /\ \A i \in 1..Len(word) : InString(CharAt(word, i), DigitChars)

\* As KeepWord, keeping the stop words and the numbers.
KeepWordByLengthOnly(word) ==
    /\ Len(word) >= MinWordLength
    /\ Len(word) <= MaxWordLength

\* The predicate of the filter over the pieces.
KeepWord(word) ==
    /\ Len(word) >= MinWordLength
    /\ Len(word) <= MaxWordLength
    /\ word \notin STOP_WORDS
    /\ ~AllDigits(word)

\* The words of a title, in order, repetitions included.
TitleWords(title) ==
    SelectSeq(SplitWhitespace(ReplacePunctuation(ToLowerCase(title))), KeepWord)

InSeq(x, seq) == \E i \in 1..Len(seq) : seq[i] = x

\* As UniqueWords, keeping every repetition.
UniqueWordsKeepAll(words) == words

\* new Set(words), in the order forEach visits it: first occurrences.
RECURSIVE UniqueWords(_)
UniqueWords(words) ==
    IF words = <<>> THEN <<>>
    ELSE LET rest == UniqueWords(SubSeq(words, 1, Len(words) - 1))
             last == words[Len(words)]
         IN  IF InSeq(last, rest) THEN rest ELSE Append(rest, last)

\* As StoryPoints, with 1 for a story without points.
StoryPointsOrOne(story) ==
    IF Falsy(story.points) THEN Num(1, 1) ELSE story.points

\* story.points || 0
StoryPoints(story) ==
    IF Falsy(story.points) THEN Num(0, 1) ELSE story.points

\* a + b
JsAdd(a, b) == JsSub(a, JsSub(Num(0, 1), b))

\* One run of the callback of uniqueWords.forEach on the entry of its word:
\* count += 1, points += story.points || 0.
AddWord(current, story) ==
    [word |-> current.word,
     count |-> current.count + 1,
     points |-> JsAdd(current.points, StoryPoints(story))]

\* The callback runs once for every element of uniqueWords that is the
\* word of the entry.
RECURSIVE AddWords(_, _, _)
AddWords(current, times, story) ==
    IF times = 0 THEN current
    ELSE AddWord(AddWords(current, times - 1, story), story)

Times(word, words) == Cardinality({k \in 1..Len(words) : words[k] = word})

\* wordCounts.get(word) || { count: 0, points: 0 } for a word not in the Map
NewEntry(word) == [word |-> word, count |-> 0, points |-> Num(0, 1)]

\* The body of stories.forEach on the Map, held as the sequence of its
\* entries in insertion order: a story without a title is skipped; the
\* entries of the words of the title are updated in place and the words
\* the Map does not have are inserted in the order uniqueWords has them.
AddStory(wordCounts, story) ==
    IF story.title.t # "string" \/ story.title.s = ""
    THEN wordCounts
    ELSE LET words == UniqueWords(TitleWords(story.title.s))
             known == [i \in 1..Len(wordCounts) |->
                        AddWords(wordCounts[i],
                                 Times(wordCounts[i].word, words), story)]
             firsts == {k \in 1..Len(words) :
                            /\ \A i \in 1..Len(wordCounts) :
                                    wordCounts[i].word # words[k]
                            /\ \A j \in 1..(k - 1) : words[j] # words[k]}
             first(m) == CHOOSE k \in firsts :
                            Cardinality({j \in firsts : j < k}) = m - 1
             inserted == [m \in 1..Cardinality(firsts) |->
                            AddWords(NewEntry(words[first(m)]),
                                     Times(words[first(m)], words), story)]
         IN  known \o inserted

RECURSIVE CountWords(_)
CountWords(stories) ==
    IF stories = <<>> THEN <<>>
    ELSE AddStory(CountWords(SubSeq(stories, 1, Len(stories) - 1)),
                  stories[Len(stories)])

\* Math.log10 is computed digit by digit to LogBits binary digits, on a
\* mantissa of LogBase * LogBase steps per unit held as two limbs so that
\* no product leaves 32 bits; it is exact on the powers of ten.
LogBase == 4096
LogBits == 20
LogScale == LogBase * LogBase

RECURSIVE Pow2(_)
Pow2(k) == IF k = 0 THEN 1 ELSE 2 * Pow2(k - 1)

\* (m * m) / LogScale, rounded down.
MantissaSquare(m) ==
    LET a == m \div LogBase
        b == m % LogBase
    IN  a * a + (2 * a * b + (b * b) \div LogBase) \div LogBase

\* (n * LogScale) / d, rounded down, for d <= n < 10 * d.
Mantissa(n, d) ==
    LET r == n % d
        q1 == (r * LogBase) \div d
        r1 == (r * LogBase) % d
    IN  (n \div d) * LogScale + q1 * LogBase + (r1 * LogBase) \div d

RECURSIVE LogFraction(_, _)
LogFraction(m, bit) ==
    IF bit > LogBits THEN 0
    ELSE LET sq == MantissaSquare(m)
         IN  IF sq >= 10 * LogScale
             THEN Pow2(LogBits - bit) + LogFraction(sq \div 10, bit + 1)
             ELSE LogFraction(sq, bit + 1)

\* log10(n / d) for n / d >= 1, in units of 1 / 2^LogBits.
RECURSIVE LogParts(_, _, _)
LogParts(n, d, k) ==
    IF n >= 10 * d THEN LogParts(n, 10 * d, k + 1)
    ELSE k * Pow2(LogBits) + LogFraction(Mantissa(n, d), 1)

\* Math.log10(a)
MathLog10(a) ==
    LET x == ToNumber(a)
    IN  CASE x.t = "nan" -> NaN
          [] x.t = "inf" -> IF x.n > 0 THEN x ELSE NaN
          [] x.n < 0 -> NaN
          [] x.n = 0 -> Infinity(-1)
          [] x.n >= x.d -> Num(LogParts(x.n, x.d, 0), Pow2(LogBits))
          [] OTHER -> Num(-LogParts(x.d, x.n, 0), Pow2(LogBits))

\* As TechBonus, with a factor of 2.
TechBonusDouble(word) == IF word \in TECH_KEYWORDS THEN Num(2, 1) ELSE Num(1, 1)

\* TECH_KEYWORDS.has(word) ? 1.5 : 1
TechBonus(word) == IF word \in TECH_KEYWORDS THEN TechBonusFactor ELSE Num(1, 1)

\* data.points / data.count
AvgPoints(data) == JsDiv(data.points, Num(data.count, 1))

\* As TopicWeight, without Math.max(avgPoints, 1).
TopicWeightNoFloor(count, avgPoints, techBonus) ==
    JsMul(JsMul(Num(count, 1), JsAdd(Num(1, 1), MathLog10(avgPoints))), techBonus)

\* data.count * (1 + Math.log10(Math.max(avgPoints, 1))) * techBonus
TopicWeight(count, avgPoints, techBonus) ==
    JsMul(JsMul(Num(count, 1),
                JsAdd(Num(1, 1), MathLog10(MathMax(avgPoints, Num(1, 1))))),
          techBonus)

\* The object the map callback returns for an entry of the Map, with the
\* locals avgPoints and weight of the callback beside it.
TopicOf(data) ==
    LET avgPoints == AvgPoints(data)
        weight == TopicWeight(data.count, avgPoints, TechBonus(data.word))
    IN  [word |-> data.word,
         count |-> data.count,
         weight |-> RoundToTenth(weight),
         isTech |-> data.word \in TECH_KEYWORDS,
         points |-> data.points,
         avgPoints |-> avgPoints,
         rawWeight |-> weight]

\* As TopicQualifies, with a single story being enough.
TopicQualifiesOnce(topic) == topic.count >= 1

\* .filter(topic => topic.count >= 2)
TopicQualifies(topic) == topic.count >= MinTopicCount

\* As InsertByWeight, placing a topic before those of equal weight.
InsertByWeightBeforeTies(sorted, topic) ==
    LET k == Cardinality({i \in 1..Len(sorted) :
                            JsGt(sorted[i].weight, topic.weight)})
    IN  SubSeq(sorted, 1, k) \o <<topic>> \o SubSeq(sorted, k + 1, Len(sorted))

\* One step of the stable sort with the comparator b.weight - a.weight:
\* a topic goes after every topic whose weight is not smaller.
InsertByWeight(sorted, topic) ==
    LET k == Cardinality({i \in 1..Len(sorted) :
                            ~JsLt(sorted[i].weight, topic.weight)})
    IN  SubSeq(sorted, 1, k) \o <<topic>> \o SubSeq(sorted, k + 1, Len(sorted))

\* .sort((a, b) => b.weight - a.weight)
RECURSIVE SortByWeight(_)
SortByWeight(topics) ==
    IF topics = <<>> THEN <<>>
    ELSE InsertByWeight(SortByWeight(SubSeq(topics, 1, Len(topics) - 1)),
                        topics[Len(topics)])

\* The limit in force: 15 when the argument is omitted.
LimitOf(limit) == IF limit.t = "undefined" THEN DefaultLimit ELSE limit.n

\* As Slice, keeping one entry more.
SliceOneMore(topics, limit) ==
    SubSeq(topics, 1, IF limit + 1 < Len(topics) THEN limit + 1 ELSE Len(topics))

\* .slice(0, limit) for a limit >= 0
Slice(topics, limit) ==
    SubSeq(topics, 1, IF limit < Len(topics) THEN limit ELSE Len(topics))

\* The fields of a returned topic.
Returned(topic) ==
    [word |-> topic.word, count |-> topic.count, weight |-> topic.weight,
     isTech |-> topic.isTech]

\* One call of extractTrendingTopics: the Map, the array after map, filter
\* and sort, and the array returned.
extractTrendingTopics(stories, limit) ==
    LET wordCounts == CountWords(stories)
        mapped == [i \in 1..Len(wordCounts) |-> TopicOf(wordCounts[i])]
        ranked == SortByWeight(SelectSeq(mapped, TopicQualifies))
        kept == Slice(ranked, LimitOf(limit))
    IN  [wordCounts |-> wordCounts,
         ranked |-> ranked,
         kept |-> kept,
         result |-> [i \in 1..Len(kept) |-> Returned(kept[i])]]

StringTitle(s) == [t |-> "string", s |-> s]
NullTitle == [t |-> "null", s |-> ""]

\* The stories the model draws.
StorySamples ==
    {[title |-> StringTitle("Rust is great"), points |-> Num(100, 1)],
     [title |-> StringTitle("Why Rust wins"), points |-> Num(50, 1)],
     [title |-> StringTitle("Learning Python"), points |-> Num(10, 1)],
     [title |-> StringTitle("rust Rust RUST rust, rust!"), points |-> Num(1, 1)],
     [title |-> StringTitle("Great alpha beta wins"), points |-> Num(50, 1)],
     [title |-> StringTitle("beta?"), points |-> Num(102, 1)],
     [title |-> StringTitle(
         "Python 2024: Rust is the new AI aa bb cc dd ee ff gg hh ii jj kk ll mm"),
      points |-> Null],
     [title |-> NullTitle, points |-> Num(100, 1)]}

StoryLists == UNION {[1..n -> StorySamples] : n \in 0..MaxStories}

Limits == {Undefined} \cup {Num(k, 1) : k \in 0..MaxLimit}

NoTopics ==
    [called |-> FALSE, stories |-> <<>>, limit |-> Undefined,
     run |-> extractTrendingTopics(<<>>, Undefined)]

NoWhy ==
    [called |-> FALSE,
     story |-> [hotness |-> Absent(Sentinel), discussion |-> Absent(NullDiscussion)],
     result |-> NullText]

(***************************************************************************)
(* getTopicSizeClass                                                       *)
(***************************************************************************)
XlRatio == Num(8, 10)
LgRatio == Num(6, 10)
MdRatio == Num(4, 10)
SmRatio == Num(2, 10)

\* As SizeClassOf, with the breakpoints tested from the lowest up.
SizeClassOfLowestFirst(ratio) ==
    IF JsGe(ratio, SmRatio) THEN "sm"
    ELSE IF JsGe(ratio, MdRatio) THEN "md"
    ELSE IF JsGe(ratio, LgRatio) THEN "lg"
    ELSE IF JsGe(ratio, XlRatio) THEN "xl"
    ELSE "xs"

\* The cascade of returns on the ratio.
SizeClassOf(ratio) ==
    IF JsGe(ratio, XlRatio) THEN "xl"
    ELSE IF JsGe(ratio, LgRatio) THEN "lg"
    ELSE IF JsGe(ratio, MdRatio) THEN "md"
    ELSE IF JsGe(ratio, SmRatio) THEN "sm"
    ELSE "xs"

\* One call of getTopicSizeClass: the local ratio and the class returned.
getTopicSizeClass(weight, maxWeight) ==
    LET ratio == JsDiv(weight, maxWeight)
    IN  [ratio |-> ratio, result |-> SizeClassOf(ratio)]

\* The weights the model draws: the halves from 0 to MaxSizeWeight, which
\* a double holds exactly, so that the quotient of two of them is compared
\* with a breakpoint as the exact quotient is.
SizeWeights == {Num(k, 2) : k \in 0..(2 * MaxSizeWeight)}

NoSize ==
    [called |-> FALSE, weight |-> Num(0, 1), maxWeight |-> Num(1, 1),
     run |-> getTopicSizeClass(Num(0, 1), Num(1, 1))]

(***************************************************************************)
(* The core functions called one after another, in any order.              *)
(***************************************************************************)
CoreFunctions ==
    {"calculateHotness", "calculateDiscussionIntensity", "extractTrendingTopics"}

\* The arguments the callers pass in this part of the model.
CoreArguments(fn) ==
    CASE fn = "calculateHotness" ->
            {[points |-> Num(100, 1), timestamp |-> DateOf(Now0 - 100 * Quantum)],
             [points |-> Num(100, 1), timestamp |-> [t |-> "null", ms |-> 0]]}
      [] fn = "calculateDiscussionIntensity" ->
            {[commentCount |-> Num(60, 1), points |-> Num(10, 1)],
             [commentCount |-> Num(5, 1), points |-> Num(10, 1)]}
      [] fn = "extractTrendingTopics" ->
            {[stories |->
                <<[title |-> StringTitle("Rust is great"), points |-> Num(100, 1)],
                  [title |-> StringTitle("Why Rust wins"), points |-> Num(50, 1)]>>,
              limit |-> Undefined],
             [stories |-> <<>>, limit |-> Undefined]}

\* As CoreCall, with calculateDiscussionIntensity returning null once
\* extractTrendingTopics was called.
CoreCallSharingState(fn, args, nowMs, before) ==
    [called |-> TRUE, args |-> args, after |-> args, at |-> nowMs,
     result |->
        CASE fn = "calculateHotness" ->
                calculateHotness(args.points, args.timestamp, nowMs).result
          [] fn = "calculateDiscussionIntensity" ->
                IF before["extractTrendingTopics"].called THEN NullDiscussion
                ELSE calculateDiscussionIntensity(args.commentCount, args.points)
          [] fn = "extractTrendingTopics" ->
                extractTrendingTopics(args.stories, args.limit).result]

\* One call of a core function when the clock reads nowMs and the earlier
\* calls left `before`: the arguments as passed and as they are after the
\* call, and the value returned.  calculateHotness reads the clock
\* (new Date()); no function reads or writes anything an earlier call left,
\* and none assigns to its arguments or to what they hold.
CoreCall(fn, args, nowMs, before) ==
    [called |-> TRUE, args |-> args, after |-> args, at |-> nowMs,
     result |->
        CASE fn = "calculateHotness" ->
                calculateHotness(args.points, args.timestamp, nowMs).result
          [] fn = "calculateDiscussionIntensity" ->
                calculateDiscussionIntensity(args.commentCount, args.points)
          [] fn = "extractTrendingTopics" ->
                extractTrendingTopics(args.stories, args.limit).result]

NoCore ==
    [fn \in CoreFunctions |->
        [called |-> FALSE, args |-> <<>>, after |-> <<>>, at |-> Now0,
         result |-> <<>>]]

(***************************************************************************)
(* The Hacker News service: fetchStoryIds, fetchStoryDetails, fetchStories *)
(***************************************************************************)
\* What the request of one item can end in: the JSON of a story, the JSON
\* of an item of another type, the JSON null (no such item), or a failure
\* (the network, or a response that is not ok).
DetailOutcomes == {"story", "job", "null", "failed"}

Fulfilled(value) == [state |-> "fulfilled", value |-> value]
Rejected == [state |-> "rejected", value |-> <<>>]
Pending == [state |-> "pending", value |-> <<>>]

JsonNull == [id |-> 0, type |-> "null"]

\* As fetchStoryDetails, without the catch: a failure rejects the promise.
fetchStoryDetailsRethrowing(id, outcome) ==
    CASE outcome = "failed" -> Rejected
      [] outcome = "null" -> Fulfilled(JsonNull)
      [] OTHER -> Fulfilled([id |-> id, type |-> outcome])

\* The promise fetchStoryDetails(id) settles to: the JSON of the response,
\* or null when the request failed (the catch returns null).
fetchStoryDetails(id, outcome) ==
    CASE outcome = "failed" -> Fulfilled(JsonNull)
      [] outcome = "null" -> Fulfilled(JsonNull)
      [] OTHER -> Fulfilled([id |-> id, type |-> outcome])

\* Promise.all: rejected as soon as one promise is rejected, fulfilled with
\* the values in the order of the promises once all are fulfilled.
PromiseAll(promises) ==
    IF \E i \in 1..Len(promises) : promises[i].state = "rejected"
    THEN Rejected
    ELSE IF \A i \in 1..Len(promises) : promises[i].state = "fulfilled"
    THEN Fulfilled([i \in 1..Len(promises) |-> promises[i].value])
    ELSE Pending

\* story !== null && story.type === 'story'
IsStory(story) == story # JsonNull /\ story.type = "story"

\* formatStory(story, rank): the fields of the story record that tell the
\* stories of a batch apart.
formatStory(story, rank) == [id |-> story.id, rank |-> rank]

\* stories.filter(...).map((story, index) => formatStory(story, index + 1))
FormatBatch(stories) ==
    LET kept == SelectSeq(stories, IsStory)
    IN  [i \in 1..Len(kept) |-> formatStory(kept[i], i)]

\* The lists of ids the ids request can answer with.
IdLists ==
    {ids \in UNION {[1..n -> 1..MaxIds] : n \in 0..MaxIds} :
        \A i, j \in 1..Len(ids) : i # j => ids[i] # ids[j]}

\* limit of fetchStories(type, limit)
FetchLimits == 0..MaxIds

\* storyIds.slice(0, limit)
LimitedIds(storyIds, limit) ==
    SubSeq(storyIds, 1, IF limit < Len(storyIds) THEN limit ELSE Len(storyIds))

NoFetch ==
    [phase |-> "idle", limit |-> 0, ids |-> <<>>, outcomes |-> <<>>,
     promises |-> <<>>, result |-> <<>>]

(***************************************************************************)
(* The App controller (src/src/app/App.js): the state object, the requests *)
(* in flight and the content last rendered.  A story is stood for by its   *)
(* id; its other fields are those of StoryOf(id).  A load is a call of     *)
(* loadStories, a batch a call of summarizeStories, an extension a call of *)
(* summarizeStory.                                                         *)
(***************************************************************************)
PageSize == 10
SummaryLimit == 10

NoError == [t |-> "null", s |-> ""]
ErrorOf(message) == [t |-> "string", s |-> message]

NotConfiguredMessage ==
    "NewsAPI key not configured. Add VITE_NEWS_API_KEY to your .env file."
DefaultLoadMessage == "Failed to load stories"

\* error.message || 'Failed to load stories'
MessageOf(message) == IF message = "" THEN DefaultLoadMessage ELSE message

\* The messages of the rejections the model draws.
RejectionMessages == {"", "Failed to fetch headlines"}

\* new Map(), and map.set(key, value).
EmptyMap == [key \in {} |-> ""]
MapSet(map, key, value) ==
    [k \in DOMAIN map \cup {key} |-> IF k = key THEN value ELSE map[k]]

\* The state object as the module creates it.
InitialState ==
    [stories |-> <<>>, isLoading |-> FALSE, error |-> NoError,
     filters |-> [storyType |-> "newsapi", category |-> "technology",
                  searchQuery |-> "", timeFilter |-> "all"],
     aiEnabled |-> TRUE, aiLoading |-> FALSE, aiSummaries |-> EmptyMap,
     displayCount |-> PageSize]

\* No request was made yet.  configured is what isNewsApiConfigured()
\* returns in this build: the key is fixed when the bundle is built, and the
\* first loadStories() is the first to read it.
NoFlight ==
    [loads |-> <<>>, batches |-> <<>>, extensions |-> <<>>,
     configured |-> TRUE]

\* The content container before the first renderContent.
Blank == [screen |-> "blank", count |-> 0, displayed |-> <<>>,
          hasMore |-> FALSE, extendable |-> {}]

\* The stories the services deliver: titles, authors and ages by id.
StoryOf(id) ==
    [id |-> id,
     title |-> IF id % 2 = 1 THEN "Rust wins" ELSE "Go news",
     domain |-> "",
     author |-> IF id % 5 = 0 THEN "Rusty" ELSE "",
     timestamp |-> IF id % 3 = 0 THEN Now0 - 2 * MsPerHour
                   ELSE Now0 - Quantum]

\* n stories with consecutive ids.
Feed(first, n) == [i \in 1..n |-> first + i - 1]

\* What a fetch of a source may deliver.
Responses(source) ==
    IF source = "newsapi" THEN {<<>>, Feed(101, 12)} ELSE {Feed(1, 25)}

\* The values the filter bar offers, and the typed searches.
StoryTypes == {"newsapi", "top"}
Categories == {"technology"}
TimeFilters == {"all", "1h"}
Queries == {"", "RUST"}
FilterNames == {"storyType", "category", "timeFilter"}
FilterValues(name) ==
    CASE name = "storyType" -> StoryTypes
      [] name = "category" -> Categories
      [] OTHER -> TimeFilters

\* text.includes(query)
Includes(text, query) ==
    \E i \in 0..(Len(text) - Len(query)) :
        SubSeq(text, i + 1, i + Len(query)) = query

\* The search filter of renderContent.
MatchesQuery(story, query) ==
    \/ Includes(ToLowerCase(story.title), query)
    \/ story.domain # "" /\ Includes(ToLowerCase(story.domain), query)
    \/ story.author # "" /\ Includes(ToLowerCase(story.author), query)

\* The ids of the stories the services deliver.
StoryIds == UNION {{stories[i] : i \in DOMAIN stories} :
                      stories \in UNION {Responses(source) :
                                             source \in StoryTypes}}

\* The search filter, worked out once for every story and query.
QueryMatches ==
    [id \in StoryIds |->
        [searchQuery \in Queries |->
            MatchesQuery(StoryOf(id), ToLowerCase(searchQuery))]]

FilterBySearch(stories, searchQuery) ==
    IF searchQuery = "" THEN stories
    ELSE SelectSeq(stories, LAMBDA id : QueryMatches[id][searchQuery])

\* cutoffs[timeFilter]; 0 stands for undefined.
Cutoff(timeFilter) ==
    CASE timeFilter = "1h" -> 60 * 60 * 1000
      [] timeFilter = "24h" -> 24 * 60 * 60 * 1000
      [] timeFilter = "7d" -> 7 * 24 * 60 * 60 * 1000
      [] OTHER -> 0

\* The time filter of renderContent.
FilterByTime(stories, timeFilter, nowMs) ==
    IF timeFilter = "all" \/ Cutoff(timeFilter) = 0 THEN stories
    ELSE SelectSeq(stories,
                   LAMBDA id : /\ StoryOf(id).timestamp # 0
                               /\ nowMs - StoryOf(id).timestamp
                                      <= Cutoff(timeFilter))

FilteredStories(s, nowMs) ==
    FilterByTime(FilterBySearch(s.stories, s.filters.searchQuery),
                 s.filters.timeFilter, nowMs)

\* The displayed stories whose card has the "Tell me more" button: the
\* summaries are shown and the story has one.
Extendable(s, displayed) ==
    {displayed[i] : i \in {j \in DOMAIN displayed :
                              /\ s.aiEnabled
                              /\ displayed[j] \in DOMAIN s.aiSummaries}}

\* The list of renderContent: the stats bar's count, the stories of the
\* news list and the Load More button.
ListView(s, nowMs) ==
    LET filteredStories == FilteredStories(s, nowMs)
    IN  [screen |-> "list", count |-> Len(filteredStories),
         displayed |-> Slice(filteredStories, s.displayCount),
         hasMore |-> Len(filteredStories) > s.displayCount,
         extendable |-> Extendable(s, Slice(filteredStories,
                                            s.displayCount))]

\* renderContent(): what the content container shows for a state.
renderContent(s, nowMs) ==
    IF s.isLoading
    THEN [screen |-> "loader", count |-> 0, displayed |-> <<>>,
          hasMore |-> FALSE, extendable |-> {}]
    ELSE IF s.error.t # "null" /\ s.error.s # ""
    THEN [screen |-> "error", count |-> 0, displayed |-> <<>>,
          hasMore |-> FALSE, extendable |-> {}]
    ELSE IF Len(s.stories) = 0
    THEN [screen |-> "empty", count |-> 0, displayed |-> <<>>,
          hasMore |-> FALSE, extendable |-> {}]
    ELSE ListView(s, nowMs)

\* loadStories before its request.
LoadBegins(s) ==
    [s EXCEPT !.isLoading = TRUE, !.error = NoError, !.aiSummaries = EmptyMap]

\* loadStories after its request delivered stories.
LoadSucceeds(s, stories) ==
    [s EXCEPT !.stories = stories, !.isLoading = FALSE, !.error = NoError]

\* A catch block that keeps the stories.
LoadFailsKeepingStories(s, message) ==
    [s EXCEPT !.isLoading = FALSE, !.error = ErrorOf(MessageOf(message))]

\* The catch block of loadStories.
LoadFails(s, message) ==
    [s EXCEPT !.stories = <<>>, !.isLoading = FALSE,
              !.error = ErrorOf(MessageOf(message))]

\* A load as the model remembers it: the source asked, whether the request
\* has ended, and the stories and the error its end wrote.
PendingLoad(source) ==
    [source |-> source, settled |-> FALSE, stories |-> <<>>,
     error |-> NoError]
SettledLoad(source, s) ==
    [source |-> source, settled |-> TRUE, stories |-> s.stories,
     error |-> s.error]

\* summarizeStories(stories, limit) when the answer names the entries
\* 1..answered: the Map of the ids of the stories at those places.
summarizeStories(stories, answered) ==
    [key \in {stories[i] : i \in (1..answered) \cap DOMAIN stories}
        |-> "summary"]

\* How many entries the answers the model draws name.
Answers(stories) ==
    {0, IF Len(stories) < SummaryLimit THEN Len(stories) ELSE SummaryLimit}

\* generateSummaries() up to its request, from a state, the requests in
\* flight and the content shown.
generateSummaries(s, f, v, nowMs) ==
    IF Len(s.stories) = 0
    THEN [state |-> s, flight |-> f, view |-> v]
    ELSE LET loading == [s EXCEPT !.aiLoading = TRUE]
         IN  [state |-> loading,
              flight |-> [f EXCEPT !.batches = Append(@, loading.stories)],
              view |-> renderContent(loading, nowMs)]

\* loadStories() up to its request; without a key the NewsAPI branch
\* throws before any request and the catch block runs at once.
loadStories(s, f, nowMs) ==
    LET begun == LoadBegins(s)
        source == begun.filters.storyType
    IN  IF source = "newsapi" /\ ~f.configured
        THEN LET failed == LoadFails(begun, NotConfiguredMessage)
             IN  [state |-> failed,
                  flight |-> [f EXCEPT
                                 !.loads = Append(@, SettledLoad(source,
                                                                 failed))],
                  view |-> renderContent(failed, nowMs)]
        ELSE [state |-> begun,
              flight |-> [f EXCEPT !.loads = Append(@, PendingLoad(source))],
              view |-> renderContent(begun, nowMs)]

\* handleSearch without the reset of the pagination.
SearchKeepingPage(s, query) ==
    [s EXCEPT !.filters.searchQuery = query]

\* The assignments of handleSearch(query).
Search(s, query) ==
    [s EXCEPT !.filters.searchQuery = query, !.displayCount = PageSize]

\* The assignment of handleLoadMore().
LoadMore(s) == [s EXCEPT !.displayCount = @ + PageSize]

\* The assignments of handleFilterChange(filterName, filterValue).
FilterChange(s, name, value) ==
    [s EXCEPT !.filters = [@ EXCEPT ![name] = value],
              !.displayCount = PageSize]

\* The filters whose change reloads the stories.
Reloads(name) == name \in {"storyType", "category", "country"}

(***************************************************************************)
(* formatRelativeTime.  Its dates reach years back, so the time value of a *)
(* Date is kept here as whole seconds s and milliseconds ms (the value is  *)
(* 1000 * s + ms), which keeps every number within 32 bits.                *)
(***************************************************************************)
JustNowSeconds == 60
SecondsPerMinute == 60
MinutesPerHour == 60
HoursPerDay == 24
DaysPerWeek == 7
WeeksShown == 4
DaysPerMonth == 30
MonthsShown == 12
DaysPerYear == 365

\* A Date of time value 1000 * s + ms, 0 <= ms < 1000.
DateAt(s, ms) == [t |-> "date", s |-> s, ms |-> ms]

\* Math.floor((now - date) / 1000), for the clock nowMs.
DiffInSeconds(date, nowMs) ==
    ((nowMs \div 1000) - date.s) + (((nowMs % 1000) - date.ms) \div 1000)

\* `${n}unit ago`
Label(n, unit) ==
    [text |-> ToString(n) \o unit \o " ago", n |-> n, unit |-> unit]
JustNow == [text |-> "just now", n |-> 0, unit |-> ""]
EmptyLabel == [text |-> "", n |-> 0, unit |-> ""]

\* Lines 21-48: the label of a difference of at least a minute.
LabelOf(diffInSeconds) ==
    LET diffInMinutes == diffInSeconds \div SecondsPerMinute
        diffInHours == diffInMinutes \div MinutesPerHour
        diffInDays == diffInHours \div HoursPerDay
        diffInWeeks == diffInDays \div DaysPerWeek
        diffInMonths == diffInDays \div DaysPerMonth
        diffInYears == diffInDays \div DaysPerYear
    IN  IF diffInMinutes < MinutesPerHour THEN Label(diffInMinutes, "m")
        ELSE IF diffInHours < HoursPerDay THEN Label(diffInHours, "h")
        ELSE IF diffInDays < DaysPerWeek THEN Label(diffInDays, "d")
        ELSE IF diffInWeeks < WeeksShown THEN Label(diffInWeeks, "w")
        ELSE IF diffInMonths < MonthsShown THEN Label(diffInMonths, "mo")
        ELSE Label(diffInYears, "y")

\* formatRelativeTime(date) at the clock nowMs.
formatRelativeTime(date, nowMs) ==
    IF TimestampFalsy(date) \/ ~InstanceofDate(date) \/ date.t = InvalidDate.t
    THEN [diffInSeconds |-> 0, result |-> EmptyLabel]
    ELSE LET diffInSeconds == DiffInSeconds(date, nowMs)
         IN  [diffInSeconds |-> diffInSeconds,
              result |-> IF diffInSeconds < JustNowSeconds THEN JustNow
                         ELSE LabelOf(diffInSeconds)]

SecondsPerDay == SecondsPerMinute * MinutesPerHour * HoursPerDay

\* Ages, in seconds, of the dates the model draws (negative: in the future).
RelativeAges ==
    {-3600, -1, 0, 1, 59, 60, 61, 3599, 3600, 86399, 86400}
        \cup {d * SecondsPerDay :
                 d \in {6, 7, 13, 27, 28, 29, 30, 31, 59, 60, 359, 360, 364,
                        365, 366, 729, 730}}

\* The dates the model draws: a whole number of seconds before Now0, or a
\* millisecond or 999 ms later than that.
RelativeDates ==
    {DateAt((Now0 \div 1000) - age, ms) : age \in RelativeAges,
                                       ms \in {0, 1, 999}}
        \cup {[t |-> InvalidDate.t, s |-> 0, ms |-> 0]}
        \cup {[t |-> v.t, s |-> 0, ms |-> v.ms] : v \in NonDates}

NoRel ==
    [called |-> FALSE, date |-> DateAt(0, 0), at |-> Now0,
     run |-> [diffInSeconds |-> 0, result |-> EmptyLabel]]

Init ==
    /\ now = Now0
    /\ hot = NoHot
    /\ disc = NoDisc
    /\ why = NoWhy
    /\ rel = NoRel
    /\ state = InitialState
    /\ flight = NoFlight
    /\ view = Blank
    /\ hn = NoFetch
    /\ core = NoCore
    /\ sz = NoSize
    /\ tt = NoTopics

\* Time passes.
Tick ==
    /\ now + Quantum <= Now0 + MaxTicks * Quantum
    /\ now' = now + Quantum
    /\ UNCHANGED <<hot, disc, why, tt, sz, core, hn, state, flight, view, rel>>

\* A caller evaluates calculateHotness(points, timestamp).
CallCalculateHotness ==
    \E points \in PointValues, timestamp \in Timestamps :
        /\ hot' = [called |-> TRUE, points |-> points, timestamp |-> timestamp,
                   at |-> now, run |-> calculateHotness(points, timestamp, now)]
        /\ UNCHANGED <<now, disc, why, tt, sz, core, hn, state, flight, view, rel>>

\* A caller evaluates calculateDiscussionIntensity(commentCount, points).
CallCalculateDiscussionIntensity ==
    \E commentCount \in CommentValues, points \in DiscussionPointValues :
        /\ disc' = [called |-> TRUE, commentCount |-> commentCount,
                    points |-> points,
                    ratio |-> IF DiscussionGuard(commentCount) THEN Undefined
                              ELSE DiscussionRatio(commentCount, points),
                    result |-> calculateDiscussionIntensity(commentCount, points)]
        /\ UNCHANGED <<now, hot, why, tt, sz, core, hn, state, flight, view, rel>>

\* A caller (NewsCard) evaluates getWhyItsHot(story).
CallGetWhyItsHot ==
    \E hotness \in HotnessFields, discussion \in DiscussionFields :
        LET st == [hotness |-> hotness, discussion |-> discussion]
        IN  /\ why' = [called |-> TRUE, story |-> st, result |-> getWhyItsHot(st)]
            /\ UNCHANGED <<now, hot, disc, tt, sz, core, hn, state, flight, view, rel>>

NextWhy == CallGetWhyItsHot

SpecWhy == Init /\ [][NextWhy]_vars

\* The arguments of a call of extractTrendingTopics are drawn at the start.
InitTopics ==
    /\ now = Now0
    /\ hot = NoHot
    /\ disc = NoDisc
    /\ why = NoWhy
    /\ rel = NoRel
    /\ state = InitialState
    /\ flight = NoFlight
    /\ view = Blank
    /\ hn = NoFetch
    /\ core = NoCore
    /\ sz = NoSize
    /\ \E stories \in StoryLists, limit \in Limits :
            tt = [called |-> FALSE, stories |-> stories, limit |-> limit,
                  run |-> extractTrendingTopics(<<>>, Undefined)]

\* The caller evaluates extractTrendingTopics(stories, limit).
CallExtractTrendingTopics ==
    /\ ~tt.called
    /\ tt' = [tt EXCEPT !.called = TRUE,
                        !.run = extractTrendingTopics(tt.stories, tt.limit)]
    /\ UNCHANGED <<now, hot, disc, why, sz, core, hn, state, flight, view, rel>>

NextTopics == CallExtractTrendingTopics

SpecTopics == InitTopics /\ [][NextTopics]_vars

NextHotness == Tick \/ CallCalculateHotness

SpecHotness == Init /\ [][NextHotness]_vars

NextDiscussion == CallCalculateDiscussionIntensity

SpecDiscussion == Init /\ [][NextDiscussion]_vars

\* A caller evaluates getTopicSizeClass(weight, maxWeight).
CallGetTopicSizeClass ==
    \E weight \in SizeWeights, maxWeight \in SizeWeights :
        /\ sz' = [called |-> TRUE, weight |-> weight, maxWeight |-> maxWeight,
                  run |-> getTopicSizeClass(weight, maxWeight)]
        /\ UNCHANGED <<now, hot, disc, why, tt, core, hn, state, flight, view, rel>>

NextSize == CallGetTopicSizeClass

SpecSize == Init /\ [][NextSize]_vars

\* A caller evaluates one of the core functions; the last call of each is
\* kept.
CallCoreFunction ==
    \E fn \in CoreFunctions :
    \E args \in CoreArguments(fn) :
        /\ core' = [core EXCEPT ![fn] = CoreCall(fn, args, now, core)]
        /\ UNCHANGED <<now, hot, disc, why, tt, sz, hn, state, flight, view,
                       rel>>

NextCore == Tick \/ CallCoreFunction

SpecCore == Init /\ [][NextCore]_vars

\* fetchStories(type, limit) is called: the request of the ids is sent.
CallFetchStories ==
    /\ hn.phase = "idle"
    /\ \E limit \in FetchLimits :
            hn' = [hn EXCEPT !.phase = "ids", !.limit = limit]
    /\ UNCHANGED <<now, hot, disc, why, tt, sz, core, state, flight, view, rel>>

\* The request of the ids fails: fetchStoryIds throws, fetchStories
\* rethrows.
IdsFail ==
    /\ hn.phase = "ids"
    /\ hn' = [hn EXCEPT !.phase = "rejected"]
    /\ UNCHANGED <<now, hot, disc, why, tt, sz, core, state, flight, view, rel>>

\* The ids arrive: one fetchStoryDetails is started for each of the first
\* limit ids.
IdsArrive ==
    /\ hn.phase = "ids"
    /\ \E storyIds \in IdLists :
        LET limitedIds == LimitedIds(storyIds, hn.limit)
        IN  hn' = [hn EXCEPT
                    !.phase = "details",
                    !.ids = limitedIds,
                    !.outcomes = [i \in 1..Len(limitedIds) |-> "pending"],
                    !.promises = [i \in 1..Len(limitedIds) |-> Pending]]
    /\ UNCHANGED <<now, hot, disc, why, tt, sz, core, state, flight, view, rel>>

\* One of the pending requests ends, in any order.
DetailSettles ==
    /\ hn.phase = "details"
    /\ \E i \in 1..Len(hn.ids), outcome \in DetailOutcomes :
        /\ hn.promises[i].state = "pending"
        /\ hn' = [hn EXCEPT
                    !.outcomes[i] = outcome,
                    !.promises[i] = fetchStoryDetails(hn.ids[i], outcome)]
    /\ UNCHANGED <<now, hot, disc, why, tt, sz, core, state, flight, view, rel>>

\* await Promise.all(storyPromises) resumes: the batch is filtered and
\* formatted, or the rejection is rethrown.
DetailsJoin ==
    /\ hn.phase = "details"
    /\ PromiseAll(hn.promises).state # "pending"
    /\ hn' = IF PromiseAll(hn.promises).state = "rejected"
             THEN [hn EXCEPT !.phase = "rejected"]
             ELSE [hn EXCEPT !.phase = "resolved",
                             !.result = FormatBatch(PromiseAll(hn.promises).value)]
    /\ UNCHANGED <<now, hot, disc, why, tt, sz, core, state, flight, view, rel>>

NextFetch ==
    \/ CallFetchStories
    \/ IdsFail
    \/ IdsArrive
    \/ DetailSettles
    \/ DetailsJoin

SpecFetch == Init /\ [][NextFetch]_vars

\* seq without its k-th element.
RemoveAt(seq, k) == SubSeq(seq, 1, k - 1) \o SubSeq(seq, k + 1, Len(seq))

\* The controller moves to a state, requests in flight and content shown.
Become(r) ==
    /\ state' = r.state
    /\ flight' = r.flight
    /\ view' = r.view
    /\ UNCHANGED <<now, hot, disc, why, tt, sz, core, hn, rel>>

\* A handler that only changes the state and renders.
Rendered(s) == [state |-> s, flight |-> flight, view |-> renderContent(s, now)]

\* initApp(container): the first loadStories().
InitApp ==
    /\ view = Blank
    /\ \E configured \in BOOLEAN :
           Become(loadStories(state,
                              [flight EXCEPT !.configured = configured],
                              now))

\* handleRefresh(): the refresh button or the retry of the error screen.
HandleRefresh ==
    /\ view # Blank
    /\ Len(flight.loads) < MaxLoads
    /\ Become(loadStories(state, flight, now))

\* handleFilterChange(filterName, filterValue).
HandleFilterChange ==
    /\ view # Blank
    /\ \E name \in FilterNames :
       \E value \in FilterValues(name) :
           LET changed == FilterChange(state, name, value)
           IN  IF Reloads(name)
               THEN /\ Len(flight.loads) < MaxLoads
                    /\ Become(loadStories(changed, flight, now))
               ELSE Become(Rendered(changed))

\* handleSearch(query): the search box or a trending topic.
HandleSearch ==
    /\ view # Blank
    /\ \E query \in Queries : Become(Rendered(Search(state, query)))

\* handleLoadMore(): a click on the Load More button, which exists when the
\* last renderContent found more stories.
HandleLoadMore ==
    /\ view.hasMore
    /\ Become(Rendered(LoadMore(state)))

\* handleAIToggle().
HandleAIToggle ==
    /\ view # Blank
    /\ LET toggled == [state EXCEPT !.aiEnabled = ~@]
       IN  IF /\ toggled.aiEnabled
              /\ Len(toggled.stories) > 0
              /\ DOMAIN toggled.aiSummaries = {}
           THEN /\ Len(flight.batches) < MaxBatches
                /\ Become(generateSummaries(toggled, flight, view, now))
           ELSE Become(Rendered(toggled))

\* The request of a load delivers stories: lines 286-296 of loadStories.
FetchResolves ==
    \E i \in DOMAIN flight.loads :
        /\ ~flight.loads[i].settled
        /\ \E stories \in Responses(flight.loads[i].source) :
               LET loaded == LoadSucceeds(state, stories)
                   ended == [flight EXCEPT
                                !.loads[i] = SettledLoad(@.source, loaded)]
                   shown == renderContent(loaded, now)
               IN  IF loaded.aiEnabled
                   THEN Become(generateSummaries(loaded, ended, shown, now))
                   ELSE Become([state |-> loaded, flight |-> ended,
                                view |-> shown])

\* The request of a load fails: the catch block of loadStories.
FetchRejects ==
    \E i \in DOMAIN flight.loads :
        /\ ~flight.loads[i].settled
        /\ \E message \in RejectionMessages :
               LET failed == LoadFails(state, message)
               IN  Become([state |-> failed,
                           flight |-> [flight EXCEPT
                                          !.loads[i] =
                                              SettledLoad(@.source, failed)],
                           view |-> renderContent(failed, now)])

\* summarizeStories delivers its Map: lines 317-324 of generateSummaries.
BatchResolves ==
    \E j \in DOMAIN flight.batches :
    \E answered \in Answers(flight.batches[j]) :
        LET summaries == summarizeStories(flight.batches[j], answered)
            arrived == [state EXCEPT !.aiSummaries = summaries,
                                     !.aiLoading = FALSE]
        IN  Become([state |-> arrived,
                    flight |-> [flight EXCEPT !.batches = RemoveAt(@, j)],
                    view |-> renderContent(arrived, now)])

\* summarizeStories fails: the catch block of generateSummaries.
BatchRejects ==
    \E j \in DOMAIN flight.batches :
        LET given == [state EXCEPT !.aiLoading = FALSE]
        IN  Become([state |-> given,
                    flight |-> [flight EXCEPT !.batches = RemoveAt(@, j)],
                    view |-> renderContent(given, now)])

\* The button the model clicks: the one of the story with the least id.
FirstOf(ids) == {id \in ids : \A other \in ids : id <= other}

\* handleExtendSummary(story) up to its request: a click on the "Tell me
\* more" button of a displayed story.
HandleExtendSummary ==
    /\ Len(flight.extensions) < MaxExtensions
    /\ \E story \in FirstOf(view.extendable) :
           Become([state |-> state,
                   flight |-> [flight EXCEPT !.extensions = Append(@, story)],
                   view |-> view])

\* summarizeStory delivers a detail or nothing: lines 406-410.
ExtendResolves ==
    \E k \in DOMAIN flight.extensions :
    \E detail \in {"", "detail"} :
        LET story == flight.extensions[k]
            rest == [flight EXCEPT !.extensions = RemoveAt(@, k)]
            extended == [state EXCEPT
                            !.aiSummaries = MapSet(@, story, detail)]
        IN  IF detail # ""
            THEN Become([state |-> extended, flight |-> rest,
                         view |-> renderContent(extended, now)])
            ELSE Become([state |-> state, flight |-> rest, view |-> view])

\* summarizeStory fails: the catch block of handleExtendSummary.
ExtendRejects ==
    \E k \in DOMAIN flight.extensions :
        Become([state |-> state,
                flight |-> [flight EXCEPT !.extensions = RemoveAt(@, k)],
                view |-> renderContent(state, now)])

NextApp ==
    \/ InitApp
    \/ HandleRefresh
    \/ HandleFilterChange
    \/ HandleSearch
    \/ HandleLoadMore
    \/ HandleAIToggle
    \/ FetchResolves
    \/ FetchRejects
    \/ BatchResolves
    \/ BatchRejects
    \/ HandleExtendSummary
    \/ ExtendResolves
    \/ ExtendRejects

SpecApp == Init /\ [][NextApp]_vars

\* A caller evaluates formatRelativeTime(date).
CallFormatRelativeTime ==
    \E date \in RelativeDates :
        /\ rel' = [called |-> TRUE, date |-> date, at |-> now,
                   run |-> formatRelativeTime(date, now)]
        /\ UNCHANGED <<now, hot, disc, why, tt, sz, core, hn, state, flight,
                       view>>

NextRelative == Tick \/ CallFormatRelativeTime

SpecRelative == Init /\ [][NextRelative]_vars

(***************************************************************************)
(* Vocabulary of the properties.                                           *)
(***************************************************************************)
\* The call in `hot` got a Date with a valid time value.
HotValid == hot.called /\ hot.timestamp.t = "date"

\* The age of the story at the call, in ms (negative: posted in the future).
AgeMs(h) == h.at - h.timestamp.ms

LevelRank(level) ==
    CASE level = "cold" -> 0
      [] level = "mild" -> 1
      [] level = "warm" -> 2
      [] level = "hot" -> 3
      [] level = "fire" -> 4

IsNumber(v) == v.t \in {"num", "inf"}

(***************************************************************************)
(* C1: calculateHotness returns the sentinel {score 0, velocity 0, level   *)
(* cold, reason null} for every missing or invalid timestamp (null,        *)
(* undefined, a non-Date value, a Date with an invalid time value),        *)
(* whatever points is, and the score and the velocity it returns are       *)
(* always numbers.                                                         *)
(***************************************************************************)
C1_InvalidTimestampGivesSentinel ==
    hot.called =>
        /\ hot.timestamp.t # "date" =>
                /\ hot.run.result.score = Num(0, 1)
                /\ hot.run.result.velocity = Num(0, 1)
                /\ hot.run.result.level = "cold"
                /\ hot.run.result.reason = NullReason
        /\ IsNumber(hot.run.result.score)
        /\ IsNumber(hot.run.result.velocity)

(***************************************************************************)
(* C2: for a valid timestamp the level is picked from the unrounded score  *)
(* by the first matching threshold in descending order, 100 fire, 50 hot,  *)
(* 20 warm, 5 mild, else cold, and a score exactly on a threshold gets the *)
(* higher level.                                                           *)
(***************************************************************************)
C2_LevelByThreshold ==
    HotValid =>
        LET s == hot.run.score
            l == hot.run.result.level
        IN  /\ (l = "fire") <=> JsGe(s, Num(100, 1))
            /\ (l = "hot") <=> (JsGe(s, Num(50, 1)) /\ JsLt(s, Num(100, 1)))
            /\ (l = "warm") <=> (JsGe(s, Num(20, 1)) /\ JsLt(s, Num(50, 1)))
            /\ (l = "mild") <=> (JsGe(s, Num(5, 1)) /\ JsLt(s, Num(20, 1)))
            /\ (l = "cold") <=> JsLt(s, Num(5, 1))

\* A score of exactly 100 was classified, and got fire.
C2_Witness ==
    /\ HotValid
    /\ hot.run.score = Num(100, 1)
    /\ hot.run.result.level = "fire"

(***************************************************************************)
(* C3 as claimed: the level is a function of the returned score, and a     *)
(* larger returned score never has a lower level -- stated of every two    *)
(* consecutive calls.                                                      *)
(***************************************************************************)
C3_LevelFunctionOfReturnedScore ==
    [][(hot.called /\ hot'.called) =>
          /\ (hot'.run.result.score = hot.run.result.score
                 /\ IsNumber(hot.run.result.score))
                => hot'.run.result.level = hot.run.result.level
          /\ JsGt(hot'.run.result.score, hot.run.result.score)
                => LevelRank(hot'.run.result.level)
                        >= LevelRank(hot.run.result.level)]_vars

(***************************************************************************)
(* C3 as amended: a result with a larger returned score never has a lower  *)
(* level, and two results with the same unrounded score have the same      *)
(* level; two results whose returned scores are equal may differ in level  *)
(* when rounding reaches a threshold from below.                           *)
(***************************************************************************)
C3_LevelMonotoneInReturnedScore ==
    [][(hot.called /\ hot'.called) =>
          /\ JsGt(hot'.run.result.score, hot.run.result.score)
                => LevelRank(hot'.run.result.level)
                        >= LevelRank(hot.run.result.level)
          /\ (hot'.run.score = hot.run.score /\ IsNumber(hot.run.score))
                => hot'.run.result.level = hot.run.result.level]_vars

\* A score below 5 was returned as 5.0, with the level cold.
C3_Witness ==
    /\ HotValid
    /\ JsLt(hot.run.score, Num(5, 1))
    /\ hot.run.result.score = Num(5, 1)
    /\ hot.run.result.level = "cold"

(***************************************************************************)
(* C4: the reason is non-null exactly when the level is fire, hot or warm  *)
(* (the rounded velocity, with the fire icon for fire and hot and the      *)
(* chart icon for warm) or the level is mild and hoursOld < 2 (the Fresh   *)
(* label); for mild with hoursOld >= 2 and for cold it is null.            *)
(***************************************************************************)
C4_ReasonCases ==
    hot.called =>
        LET r == hot.run.result
            fresh == ~hot.run.early /\ JsLt(hot.run.hoursOld, Num(2, 1))
            pts == MathRound(hot.run.velocity)
        IN  /\ (r.reason # NullReason)
                <=> (r.level \in {"fire", "hot", "warm"}
                        \/ (r.level = "mild" /\ fresh))
            /\ r.level \in {"fire", "hot"}
                => r.reason = [kind |-> "velocity", icon |-> "fire", pts |-> pts]
            /\ r.level = "warm"
                => r.reason = [kind |-> "velocity", icon |-> "chart", pts |-> pts]
            /\ (r.level = "mild" /\ fresh) => r.reason = FreshReason
            /\ (r.level = "mild" /\ ~fresh) => r.reason = NullReason
            /\ r.level = "cold" => r.reason = NullReason

\* A mild story a little under two hours old got the Fresh label.
C4_Witness ==
    /\ HotValid
    /\ hot.run.result.level = "mild"
    /\ JsLt(hot.run.hoursOld, Num(2, 1))
    /\ JsGt(hot.run.hoursOld, Num(1, 1))
    /\ hot.run.result.reason = FreshReason

(***************************************************************************)
(* C5: for a story posted at the instant of the call and points > 0,       *)
(* hoursOld is 0.1 and the recency multiplier is 3, so the unrounded score *)
(* is 3 times the velocity, 30 times points.                               *)
(***************************************************************************)
C5_PostedNowTriplesVelocity ==
    (HotValid /\ AgeMs(hot) = 0 /\ JsGt(hot.points, Num(0, 1))) =>
        /\ hot.run.hoursOld = Num(1, 10)
        /\ hot.run.recencyMultiplier = Num(3, 1)
        /\ hot.run.score = JsMul(Num(3, 1), hot.run.velocity)
        /\ hot.run.score = JsMul(Num(30, 1), hot.points)

(***************************************************************************)
(* C6 as claimed: for fixed points > 0 the score is strictly decreasing in *)
(* the age over the whole range from 0 to 8 hours -- stated of every two   *)
(* consecutive calls with the same points.                                 *)
(***************************************************************************)
C6_StrictlyDecreasingFromZero ==
    [][(/\ HotValid
        /\ HotValid'
        /\ hot'.points = hot.points
        /\ JsGt(hot.points, Num(0, 1))
        /\ 0 <= AgeMs(hot)
        /\ AgeMs(hot) < AgeMs(hot')
        /\ AgeMs(hot') <= 8 * MsPerHour)
            => JsGt(hot.run.score, hot'.run.score)]_vars

(***************************************************************************)
(* C6 as amended: for fixed points > 0 the score is strictly decreasing in *)
(* the age from 0.1 hour to 8 hours, and is the same for every age from 0  *)
(* to 0.1 hour.                                                            *)
(***************************************************************************)
C6_StrictlyDecreasingFromFloor ==
    [][(/\ HotValid
        /\ HotValid'
        /\ hot'.points = hot.points
        /\ JsGt(hot.points, Num(0, 1))
        /\ 0 <= AgeMs(hot)
        /\ AgeMs(hot) < AgeMs(hot')
        /\ AgeMs(hot') <= 8 * MsPerHour)
            => /\ 10 * AgeMs(hot) >= MsPerHour
                    => JsGt(hot.run.score, hot'.run.score)
               /\ 10 * AgeMs(hot') <= MsPerHour
                    => hot.run.score = hot'.run.score]_vars

\* A story with points, aged between the floor and 8 hours, was scored
\* with a multiplier strictly between 1 and 3.
C6_Witness ==
    /\ HotValid
    /\ JsGt(hot.points, Num(0, 1))
    /\ 10 * AgeMs(hot) > MsPerHour
    /\ AgeMs(hot) < 8 * MsPerHour
    /\ JsGt(hot.run.recencyMultiplier, Num(1, 1))
    /\ JsGt(hot.run.score, hot.run.velocity)

(***************************************************************************)
(* C7: for every valid timestamp, future ones included, hoursOld >= 0.1    *)
(* and 1 <= recencyMultiplier <= 3, so velocity <= score <= 3 * velocity;  *)
(* from an age of 8 hours on the multiplier is 1 and the score is the      *)
(* velocity.                                                               *)
(***************************************************************************)
C7_FloorAndMultiplierRange ==
    HotValid =>
        /\ hot.run.hoursOld.t = "num"
        /\ JsGe(hot.run.hoursOld, Num(1, 10))
        /\ JsGe(hot.run.recencyMultiplier, Num(1, 1))
        /\ JsLe(hot.run.recencyMultiplier, Num(3, 1))
        /\ hot.run.velocity.t = "num"
        /\ JsLe(hot.run.velocity, hot.run.score)
        /\ JsLe(hot.run.score, JsMul(Num(3, 1), hot.run.velocity))
        /\ AgeMs(hot) >= 8 * MsPerHour
            => /\ hot.run.recencyMultiplier = Num(1, 1)
               /\ hot.run.score = hot.run.velocity

\* A story dated in the future was scored at the floor of 0.1 hour.
C7_Witness ==
    /\ HotValid
    /\ AgeMs(hot) < 0
    /\ JsGt(hot.points, Num(0, 1))
    /\ hot.run.hoursOld = Num(1, 10)
    /\ JsGt(hot.run.score, hot.run.velocity)

(***************************************************************************)
(* C8: points = null means "no hotness applicable" and is not treated as   *)
(* zero: what calculateHotness returns for points = null differs from what *)
(* it returns for points = 0 with the same timestamp at the same instant.  *)
(***************************************************************************)
C8_NullPointsNotTreatedAsZero ==
    (HotValid /\ hot.points = Null) =>
        hot.run.result
            # calculateHotness(Num(0, 1), hot.timestamp, hot.at).result

(***************************************************************************)
(* C9: calculateDiscussionIntensity returns null whenever commentCount is  *)
(* falsy (null, undefined, 0) or below 10, whatever points is; a non-null  *)
(* result is produced only when commentCount >= 10.                        *)
(***************************************************************************)
C9_NullBelowTenComments ==
    disc.called =>
        LET c == disc.commentCount
        IN  /\ (c.t \in {"null", "undefined"} \/ c = Num(0, 1)
                    \/ (c.t = "num" /\ c.n < 10 * c.d))
                => disc.result = NullDiscussion
            /\ disc.result # NullDiscussion
                => (c.t = "num" /\ c.n >= 10 * c.d)

\* Nine comments on a one-point story (a ratio of 9) gave null.
C9_Witness ==
    /\ disc.called
    /\ disc.commentCount = Num(9, 1)
    /\ disc.points = Num(1, 1)
    /\ disc.result = NullDiscussion

(***************************************************************************)
(* C10: for commentCount >= 10 the classification is a first-match         *)
(* cascade: commentCount >= 200 intense (whatever the ratio); else ratio   *)
(* > 2 and commentCount >= 50 controversial (also when commentCount >=     *)
(* 100); else commentCount >= 100 active; otherwise null.  (250, 100) is   *)
(* intense, (60, 20) controversial, (120, 1000) active.                    *)
(***************************************************************************)
C10_DiscussionCascade ==
    (disc.called /\ disc.commentCount.t = "num" /\ disc.commentCount.n >= 10) =>
        LET c == disc.commentCount.n
            p == ToNumber(disc.points).n
            heated == p > 0 /\ c > 2 * p
            l == disc.result.level
        IN  /\ c >= 200 => l = "intense"
            /\ (c < 200 /\ heated /\ c >= 50) => l = "controversial"
            /\ (c < 200 /\ ~(heated /\ c >= 50) /\ c >= 100) => l = "active"
            /\ (c < 100 /\ ~(heated /\ c >= 50)) => disc.result = NullDiscussion
            /\ (c = 250 /\ p = 100) => l = "intense"
            /\ (c = 60 /\ p = 20) => l = "controversial"
            /\ (c = 120 /\ p = 1000) => l = "active"
            /\ l = "intense"
                => disc.result.reason = [kind |-> "comments", n |-> Num(c, 1)]
            /\ l = "active"
                => disc.result.reason = [kind |-> "discussing", n |-> Num(c, 1)]

\* 120 comments on a 50-point story (a ratio of 2.4) gave controversial,
\* although 120 >= 100.
C10_Witness ==
    /\ disc.called
    /\ disc.commentCount = Num(120, 1)
    /\ disc.points = Num(50, 1)
    /\ disc.result.level = "controversial"

(***************************************************************************)
(* C11: the comment-to-point ratio is 0 whenever points <= 0 or points is  *)
(* null, so nothing is divided by zero and such a story is never           *)
(* controversial: it is intense for commentCount >= 200, active for 100 <= *)
(* commentCount < 200, and null below 100.                                 *)
(***************************************************************************)
C11_NoRatioWithoutPoints ==
    (disc.called /\ (disc.points = Null
                        \/ (disc.points.t = "num" /\ disc.points.n <= 0))) =>
        LET c == disc.commentCount
            l == disc.result.level
            atLeast(k) == c.t = "num" /\ c.n >= k * c.d
        IN  /\ disc.ratio \in {Undefined, Num(0, 1)}
            /\ atLeast(10) => disc.ratio = Num(0, 1)
            /\ l # "controversial"
            /\ atLeast(200) => l = "intense"
            /\ (atLeast(100) /\ ~atLeast(200)) => l = "active"
            /\ ~atLeast(100) => disc.result = NullDiscussion

\* 60 comments on a story with 0 points: the ratio is 0 and the result null.
C11_Witness ==
    /\ disc.called
    /\ disc.commentCount = Num(60, 1)
    /\ disc.points = Num(0, 1)
    /\ disc.ratio = Num(0, 1)
    /\ disc.result = NullDiscussion

Tokens ==
    [i \in 1..Len(tt.stories) |->
        IF tt.stories[i].title.t = "string"
        THEN TitleWords(tt.stories[i].title.s)
        ELSE <<>>]

\* The stories whose tokens contain the word.
StoriesWith(tokens, word) == {i \in DOMAIN tokens : InSeq(word, tokens[i])}

\* How many times the word occurs among the tokens of story i.
Occurrences(tokens, word, i) ==
    Cardinality({k \in 1..Len(tokens[i]) : tokens[i][k] = word})

Topics == tt.run.result
Ranked == tt.run.ranked
Counted == tt.run.wordCounts

\* C13: whatever the stories and the limit, every returned topic has a
\* count of at least 2, and at least two stories have the word in their
\* title: a word of the title of one story only is never returned.
C13_NoTopicBelowTwoStories ==
    tt.called =>
        LET tokens == Tokens
        IN  \A k \in 1..Len(Topics) :
                /\ Topics[k].count >= 2
                /\ Cardinality(StoriesWith(tokens, Topics[k].word)) >= 2

\* A call that returned topics and dropped a word of one story only.
C13_Witness ==
    /\ tt.called
    /\ Len(Topics) >= 1
    /\ LET tokens == Tokens
       IN  \E e \in 1..Len(Counted) :
            /\ Cardinality(StoriesWith(tokens, Counted[e].word)) = 1
            /\ \A k \in 1..Len(Topics) : Topics[k].word # Counted[e].word

\* C14: the count of a word, in the Map and in every returned topic, is the
\* number of stories whose tokenized title contains it, however many times
\* a title repeats it; a word repeated in one title and absent from the
\* others has count 1 and is not returned.
C14_CountIsNumberOfStories ==
    tt.called =>
        LET tokens == Tokens
        IN  /\ \A e \in 1..Len(Counted) :
                LET with == StoriesWith(tokens, Counted[e].word)
                IN  /\ Counted[e].count = Cardinality(with)
                    /\ (/\ Cardinality(with) = 1
                        /\ \E i \in with :
                            Occurrences(tokens, Counted[e].word, i) >= 2)
                        => /\ Counted[e].count = 1
                           /\ \A k \in 1..Len(Topics) :
                                Topics[k].word # Counted[e].word
            /\ \A k \in 1..Len(Topics) :
                Topics[k].count =
                    Cardinality(StoriesWith(tokens, Topics[k].word))

\* A returned topic of count 2 whose word one of its titles repeats five
\* times.
C14_Witness ==
    /\ tt.called
    /\ LET tokens == Tokens
       IN  \E k \in 1..Len(Topics) :
            /\ Topics[k].count = 2
            /\ \E i \in StoriesWith(tokens, Topics[k].word) :
                    Occurrences(tokens, Topics[k].word, i) = 5

\* story.points of story i, a null counting as 0.
PointsOrZero(i) ==
    IF tt.stories[i].points.t = "null" THEN Num(0, 1) ELSE tt.stories[i].points

\* The sum of the points of a set of stories of the call.
RECURSIVE SumPoints(_)
SumPoints(set) ==
    IF set = {} THEN Num(0, 1)
    ELSE LET i == CHOOSE i \in set : TRUE
         IN  JsAdd(SumPoints(set \ {i}), PointsOrZero(i))

ExampleStories ==
    <<[title |-> StringTitle("Rust is great"), points |-> Num(100, 1)],
      [title |-> StringTitle("Why Rust wins"), points |-> Num(50, 1)],
      [title |-> StringTitle("Learning Python"), points |-> Num(10, 1)]>>

\* C15: the points of a word are the sum of the points of exactly the
\* stories whose title has the word, a null counting as 0 and its story
\* counting in count; avgPoints is that sum divided by count.  The titles
\* 'Rust is great', 'Why Rust wins', 'Learning Python' with 100, 50 and 10
\* points rank rust alone, with count 2, avgPoints 75 and the tech bonus
\* (weight 8.6); python has count 1 and is not ranked.
C15_PointsAreSumOverStories ==
    tt.called =>
        LET tokens == Tokens
        IN  /\ \A e \in 1..Len(Counted) :
                LET with == StoriesWith(tokens, Counted[e].word)
                IN  /\ Counted[e].count = Cardinality(with)
                    /\ Counted[e].points = SumPoints(with)
            /\ \A k \in 1..Len(Ranked) :
                LET with == StoriesWith(tokens, Ranked[k].word)
                IN  Ranked[k].avgPoints =
                        JsDiv(SumPoints(with), Num(Cardinality(with), 1))
            /\ tt.stories = ExampleStories =>
                /\ Len(Ranked) = 1
                /\ Returned(Ranked[1]) =
                        [word |-> "rust", count |-> 2, weight |-> Num(86, 10),
                         isTech |-> TRUE]
                /\ Ranked[1].avgPoints = Num(75, 1)
                /\ \E e \in 1..Len(Counted) :
                        Counted[e].word = "python" /\ Counted[e].count = 1

\* A returned topic one of whose stories has null points and another has
\* points.
C15_Witness ==
    /\ tt.called
    /\ LET tokens == Tokens
       IN  \E k \in 1..Len(Topics) :
            LET with == StoriesWith(tokens, Topics[k].word)
            IN  /\ \E i \in with : tt.stories[i].points.t = "null"
                /\ \E i \in with : tt.stories[i].points.t = "num"
                /\ Topics[k].count = Cardinality(with)

\* A tech topic and a non-tech topic of the call with the same count and
\* the same average points.
TechPair(i, j) ==
    /\ Ranked[i].word \in TECH_KEYWORDS
    /\ Ranked[j].word \notin TECH_KEYWORDS
    /\ Ranked[i].count = Ranked[j].count
    /\ Ranked[i].avgPoints = Ranked[j].avgPoints

\* C16, as stated: in the output, a tech word has exactly 1.5 times the
\* weight of a non-tech word with the same count and average points, and
\* isTech is true exactly for the tech keywords.
C16_ReturnedWeightTimesOneAndAHalf ==
    tt.called =>
        /\ \A i, j \in 1..Len(Topics) :
                TechPair(i, j) =>
                    Topics[i].weight = JsMul(Topics[j].weight, Num(3, 2))
        /\ \A k \in 1..Len(Topics) :
                Topics[k].isTech <=> Topics[k].word \in TECH_KEYWORDS

\* C16, amended: before it is rounded, the weight of a tech word is
\* exactly 1.5 times the weight of a non-tech word with the same count and
\* average points; each returned weight is its weight rounded to one
\* decimal; isTech is true exactly for the tech keywords.
C16_UnroundedWeightTimesOneAndAHalf ==
    tt.called =>
        /\ \A i, j \in 1..Len(Ranked) :
                TechPair(i, j) =>
                    Ranked[i].rawWeight = JsMul(Ranked[j].rawWeight, Num(3, 2))
        /\ \A k \in 1..Len(Topics) :
                /\ Topics[k].weight = RoundToTenth(Ranked[k].rawWeight)
                /\ Topics[k].isTech <=> Topics[k].word \in TECH_KEYWORDS

\* A returned tech topic and a returned non-tech topic with the same count
\* and average points whose returned weights are not in the ratio 1.5.
C16_Witness ==
    /\ tt.called
    /\ \E i, j \in 1..Len(Topics) :
        /\ TechPair(i, j)
        /\ Topics[i].weight # JsMul(Topics[j].weight, Num(3, 2))

\* C17: among the topics of a call with the same tech flag, a count that is
\* not smaller at equal average points, or average points that are not
\* smaller at equal count, never give a smaller returned weight; with
\* average points of 1 or less the weight is count * techBonus.
C17_WeightMonotone ==
    tt.called =>
        /\ \A i, j \in 1..Len(Ranked) :
                (Ranked[i].isTech = Ranked[j].isTech) =>
                    /\ (/\ Ranked[i].count >= Ranked[j].count
                        /\ Ranked[i].avgPoints = Ranked[j].avgPoints)
                            => ~JsLt(Ranked[i].weight, Ranked[j].weight)
                    /\ (/\ Ranked[i].count = Ranked[j].count
                        /\ JsGe(Ranked[i].avgPoints, Ranked[j].avgPoints))
                            => ~JsLt(Ranked[i].weight, Ranked[j].weight)
        /\ \A k \in 1..Len(Ranked) :
                JsLe(Ranked[k].avgPoints, Num(1, 1)) =>
                    Ranked[k].weight =
                        JsMul(Num(Ranked[k].count, 1),
                              IF Ranked[k].word \in TECH_KEYWORDS
                              THEN Num(3, 2) ELSE Num(1, 1))

\* A topic with average points strictly between 0 and 1 and another with
\* the same tech flag, null points only and a smaller count.
C17_Witness ==
    /\ tt.called
    /\ \E i, j \in 1..Len(Ranked) :
        /\ Ranked[i].isTech = Ranked[j].isTech
        /\ JsGt(Ranked[i].avgPoints, Num(0, 1))
        /\ JsLt(Ranked[i].avgPoints, Num(1, 1))
        /\ Ranked[j].avgPoints = Num(0, 1)
        /\ Ranked[i].count > Ranked[j].count
        /\ JsGt(Ranked[i].weight, Ranked[j].weight)

\* The first story with the word, and the place of the word in its tokens.
FirstStory(tokens, word) ==
    CHOOSE i \in StoriesWith(tokens, word) :
        \A j \in StoriesWith(tokens, word) : i <= j

FirstPlace(tokens, word) ==
    CHOOSE k \in 1..Len(tokens[FirstStory(tokens, word)]) :
        /\ tokens[FirstStory(tokens, word)][k] = word
        /\ \A m \in 1..(k - 1) : tokens[FirstStory(tokens, word)][m] # word

\* word1 is met before word2 when the stories are scanned in input order.
MetBefore(tokens, word1, word2) ==
    \/ FirstStory(tokens, word1) < FirstStory(tokens, word2)
    \/ /\ FirstStory(tokens, word1) = FirstStory(tokens, word2)
       /\ FirstPlace(tokens, word1) < FirstPlace(tokens, word2)

\* C18: the returned sequence is in order of non-increasing weight, and of
\* two topics of equal weight the one whose word was met first while
\* scanning the stories in input order comes first.
C18_OrderedByWeightStable ==
    tt.called =>
        LET tokens == Tokens
        IN  \A i, j \in 1..Len(Topics) :
                i < j =>
                    /\ ~JsLt(Topics[i].weight, Topics[j].weight)
                    /\ Topics[i].weight = Topics[j].weight
                        => MetBefore(tokens, Topics[i].word, Topics[j].word)

\* Two returned topics of equal weight and one of a smaller weight.
C18_Witness ==
    /\ tt.called
    /\ \E i, j, k \in 1..Len(Topics) :
        /\ i < j
        /\ j < k
        /\ Topics[i].weight = Topics[j].weight
        /\ JsGt(Topics[j].weight, Topics[k].weight)

\* An unrounded weight in units of 1 / 2^(LogBits + 1).
Units(x) == x.n * (Pow2(LogBits + 1) \div x.d)

\* C19: the ranking and the cut at the limit are decided on the unrounded
\* weights: a topic with a strictly greater unrounded weight comes before,
\* and is never cut in favour of, a topic with a smaller one.
C19_RankedOnUnroundedWeights ==
    tt.called =>
        /\ \A i, j \in 1..Len(Ranked) :
                i < j => Units(Ranked[i].rawWeight) >= Units(Ranked[j].rawWeight)
        /\ \A i \in 1..Len(Topics) :
                \A j \in (Len(Topics) + 1)..Len(Ranked) :
                    Units(Ranked[i].rawWeight) >= Units(Ranked[j].rawWeight)

\* C20: the call returns the first limit entries (15 when the limit is
\* omitted) of the ranking of all the words with a count of at least 2, and
\* all of them when fewer qualify.
C20_FirstLimitOfRanking ==
    tt.called =>
        LET limit == IF tt.limit = Undefined THEN DefaultLimit ELSE tt.limit.n
        IN  /\ Len(Topics) <= limit
            /\ Len(Topics) = IF Len(Ranked) < limit THEN Len(Ranked) ELSE limit
            /\ \A k \in 1..Len(Topics) : Topics[k] = Returned(Ranked[k])
            /\ {Ranked[k].word : k \in 1..Len(Ranked)}
                    = {Counted[e].word :
                        e \in {e \in 1..Len(Counted) : Counted[e].count >= 2}}
            /\ Len(Ranked)
                    = Cardinality({e \in 1..Len(Counted) : Counted[e].count >= 2})

\* A call without a limit in which more than 15 words qualify.
C20_Witness ==
    /\ tt.called
    /\ tt.limit = Undefined
    /\ Len(Ranked) > DefaultLimit
    /\ Len(Topics) = DefaultLimit

\* The stories of the call that have a title.
Titled == {i \in 1..Len(tt.stories) :
            tt.stories[i].title.t = "string" /\ tt.stories[i].title.s # ""}

\* C21: every word of a returned topic is lowercase, 2 to 20 characters
\* long, not a stop word, not made of digits only, and made of letters,
\* digits, _ and - only; a story with an empty or missing title adds to no
\* count and to no points, and appending one to the stories changes
\* nothing in the Map.
C21_WordsAreCleanTokens ==
    tt.called =>
        LET tokens == Tokens
        IN  /\ \A k \in 1..Len(Topics) :
                LET word == Topics[k].word
                IN  /\ Len(word) >= 2
                    /\ Len(word) <= 20
                    /\ word \notin STOP_WORDS
                    /\ \E c \in 1..Len(word) :
                            ~InString(CharAt(word, c), "0123456789")
                    /\ \A c \in 1..Len(word) :
                            InString(CharAt(word, c),
                                     "abcdefghijklmnopqrstuvwxyz0123456789_-")
                    /\ StoriesWith(tokens, word) \subseteq Titled
            /\ \A e \in 1..Len(Counted) :
                /\ StoriesWith(tokens, Counted[e].word) \subseteq Titled
                /\ Counted[e].count =
                        Cardinality(StoriesWith(tokens, Counted[e].word))
            /\ Titled = {} => Counted = <<>> /\ Topics = <<>>
            /\ AddStory(Counted, [title |-> StringTitle(""),
                                  points |-> Num(100, 1)]) = Counted
            /\ AddStory(Counted, [title |-> NullTitle,
                                  points |-> Num(100, 1)]) = Counted

\* A call that returned topics from stories one of which has no title and
\* one of which has a stop word, a number, a capital and punctuation in
\* its title.
C21_Witness ==
    /\ tt.called
    /\ Len(Topics) >= 1
    /\ \E i \in 1..Len(tt.stories) : i \notin Titled
    /\ \E i \in Titled :
        LET pieces == SplitWhitespace(ReplacePunctuation(
                            ToLowerCase(tt.stories[i].title.s)))
        IN  /\ \E k \in 1..Len(pieces) : pieces[k] \in STOP_WORDS
            /\ \E k \in 1..Len(pieces) : AllDigits(pieces[k])
            /\ ToLowerCase(tt.stories[i].title.s) # tt.stories[i].title.s
            /\ ReplacePunctuation(tt.stories[i].title.s) # tt.stories[i].title.s

(***************************************************************************)
(* getTopicSizeClass: its claims.                                          *)
(***************************************************************************)
SizeRank(class) ==
    CASE class = "xs" -> 0
      [] class = "sm" -> 1
      [] class = "md" -> 2
      [] class = "lg" -> 3
      [] class = "xl" -> 4

\* The class the breakpoints give to weight / maxWeight for maxWeight > 0,
\* by cross-multiplication: 10 * weight against 8, 6, 4 and 2 * maxWeight.
ClassByBreakpoints(weight, maxWeight) ==
    LET w == 10 * weight.n * maxWeight.d
        m == maxWeight.n * weight.d
    IN  IF w >= 8 * m THEN "xl"
        ELSE IF w >= 6 * m THEN "lg"
        ELSE IF w >= 4 * m THEN "md"
        ELSE IF w >= 2 * m THEN "sm"
        ELSE "xs"

\* C22, a call: the class is the one the breakpoints 0.8, 0.6, 0.4 and 0.2
\* give to weight / maxWeight; getTopicSizeClass(w, w) is xl for w > 0 and
\* getTopicSizeClass(0, m) is xs for m > 0.
C22_ClassOfCall ==
    sz.called =>
        /\ JsGt(sz.maxWeight, Num(0, 1)) =>
                /\ sz.run.ratio = Num(sz.weight.n * sz.maxWeight.d,
                                      sz.weight.d * sz.maxWeight.n)
                /\ sz.run.result = ClassByBreakpoints(sz.weight, sz.maxWeight)
        /\ (sz.weight = sz.maxWeight /\ JsGt(sz.weight, Num(0, 1)))
                => sz.run.result = "xl"
        /\ (sz.weight = Num(0, 1) /\ JsGt(sz.maxWeight, Num(0, 1)))
                => sz.run.result = "xs"

\* C22: getTopicSizeClass buckets weight / maxWeight by the breakpoints
\* 0.8 -> xl, 0.6 -> lg, 0.4 -> md, 0.2 -> sm, else xs; (w, w) is xl for
\* w > 0 and (0, m) is xs for m > 0; and of two calls with the same
\* maxWeight the one with the weight that is not smaller never has the
\* smaller class.
C22_SizeClassByBreakpoints ==
    [][/\ C22_ClassOfCall'
       /\ (/\ sz.called
           /\ sz'.called
           /\ sz'.maxWeight = sz.maxWeight
           /\ JsGe(sz'.weight, sz.weight))
            => SizeRank(sz'.run.result) >= SizeRank(sz.run.result)]_vars

\* A call with a ratio exactly on the breakpoint 0.6, giving lg.
C22_Witness ==
    /\ sz.called
    /\ sz.run.ratio = Num(3, 5)
    /\ sz.run.result = "lg"
    /\ sz.weight # sz.maxWeight

(***************************************************************************)
(* The core functions as transforms: their claims.                         *)
(***************************************************************************)
\* Function fn was called before and in this step, with equal arguments.
CalledAgain(fn) ==
    /\ core[fn].called
    /\ core'[fn].called
    /\ core'[fn].args = core[fn].args

Delivered == {i \in 1..Len(hn.ids) : hn.outcomes[i] = "story"}

\* C24: the requests of the items end in any order; once all have ended
\* the batch resolves, whatever number of them failed, with exactly the
\* items whose request brought a story, in the order of the id list and
\* ranked 1, 2, ..; the batch is rejected only when the request of the ids
\* failed.
C24_FailedDetailDropsOnlyItsStory ==
    /\ hn.phase = "resolved" =>
        /\ Len(hn.result) = Cardinality(Delivered)
        /\ \A i \in Delivered :
            LET rank == Cardinality({j \in Delivered : j <= i})
            IN  hn.result[rank] = [id |-> hn.ids[i], rank |-> rank]
    /\ hn.phase = "rejected" => hn.ids = <<>> /\ hn.outcomes = <<>>
    /\ (/\ hn.phase = "details"
        /\ \A i \in 1..Len(hn.ids) : hn.outcomes[i] # "pending")
        => PromiseAll(hn.promises).state = "fulfilled"

\* A batch of three in which the second request failed and the other two
\* brought stories, resolved with those two.
C24_Witness ==
    /\ hn.phase = "resolved"
    /\ Len(hn.ids) = 3
    /\ hn.outcomes = <<"story", "failed", "story">>
    /\ Len(hn.result) = 2

\* The loads whose request has not ended, and whether any load was started
\* and all have ended.
InFlight == {i \in DOMAIN flight.loads : ~flight.loads[i].settled}
AllLoadsEnded == flight.loads # <<>> /\ InFlight = {}
LatestLoad == flight.loads[Len(flight.loads)]

\* C25: once every pending fetch has completed, state.stories and
\* state.error are those produced by the most recently started load,
\* whatever the order in which the fetches completed.
C25_LatestStartedLoadWins ==
    AllLoadsEnded =>
        /\ state.stories = LatestLoad.stories
        /\ state.error = LatestLoad.error

\* C26: state.isLoading is true in every state in which at least one
\* loadStories fetch is still in flight.
C26_LoadingWhileFetchInFlight == InFlight # {} => state.isLoading

\* C26, second half: once every started load has completed or failed,
\* state.isLoading is false.
C26_IdleWhenNoFetchInFlight == AllLoadsEnded => ~state.isLoading

\* The ids of the stories of the state.
CurrentIds == {state.stories[i] : i \in DOMAIN state.stories}

\* C27: every key of state.aiSummaries is the id of a story currently in
\* state.stories.
C27_SummaryKeysAreCurrentStories ==
    DOMAIN state.aiSummaries \subseteq CurrentIds

\* C28: a non-null state.error implies that state.stories is empty, under
\* every interleaving of overlapping loads.
C28_ErrorImpliesNoStories == state.error # NoError => state.stories = <<>>

\* An error is shown after two loads overlapped, one of which had delivered
\* stories.
C28_Witness ==
    /\ state.error # NoError
    /\ state.stories = <<>>
    /\ Len(flight.loads) >= 2
    /\ \E i \in DOMAIN flight.loads :
           flight.loads[i].settled /\ flight.loads[i].stories # <<>>

Min(a, b) == IF a < b THEN a ELSE b

\* What renderContent shows of a list: min(displayCount, filtered) stories,
\* and the Load More button exactly when more are filtered.
PagedView ==
    view.screen = "list" =>
        /\ Len(view.displayed) = Min(state.displayCount, view.count)
        /\ view.hasMore <=> view.count > state.displayCount

\* What the handlers do to the pagination.
PagedStep ==
    /\ HandleLoadMore
           => state'.displayCount = state.displayCount + PageSize
    /\ (HandleSearch \/ HandleFilterChange)
           => /\ state'.displayCount = PageSize
              /\ Len(view'.displayed) <= PageSize

\* C29: state.displayCount starts at 10 and is always a positive multiple
\* of 10; handleLoadMore adds exactly 10; handleSearch and every
\* handleFilterChange reset it to 10, after which at most 10 stories are
\* displayed; the displayed stories are min(displayCount, filtered) many and
\* Load More is offered exactly when the filtered stories exceed
\* displayCount.
C29_PaginationByTens ==
    /\ state.displayCount = PageSize
    /\ [](state.displayCount > 0 /\ state.displayCount % PageSize = 0)
    /\ []PagedView
    /\ [][PagedStep]_vars

\* Two pages of a longer list are displayed with the Load More button, and
\* a search is typed.
C29_Witness ==
    /\ state.displayCount = 2 * PageSize
    /\ view.screen = "list"
    /\ Len(view.displayed) = 2 * PageSize
    /\ view.hasMore
    /\ ENABLED HandleSearch

\* The age of the date of the call in whole seconds, rounded down.
AgeSeconds ==
    ((rel.at \div 1000) - rel.date.s)
        + (IF (rel.at % 1000) < rel.date.ms THEN -1 ELSE 0)

\* The seconds of the units, from the largest to the smallest.
UnitSeconds ==
    <<[unit |-> "y", seconds |-> DaysPerYear * SecondsPerDay],
      [unit |-> "mo", seconds |-> DaysPerMonth * SecondsPerDay],
      [unit |-> "w", seconds |-> DaysPerWeek * SecondsPerDay],
      [unit |-> "d", seconds |-> SecondsPerDay],
      [unit |-> "h", seconds |-> SecondsPerMinute * MinutesPerHour],
      [unit |-> "m", seconds |-> SecondsPerMinute]>>

\* The largest unit that fits in an age of at least a minute.
LargestUnit(age) ==
    UnitSeconds[CHOOSE i \in DOMAIN UnitSeconds :
                   /\ UnitSeconds[i].seconds <= age
                   /\ \A j \in 1..(i - 1) : UnitSeconds[j].seconds > age].unit

\* C30: for a valid Date at least 60 seconds in the past the label has a
\* numeric part of at least 1 and the largest of the units m, h, d, w, mo,
\* y that applies; for a date less than 60 seconds old or in the future the
\* result is 'just now'; for a missing or invalid date it is ''.
C30_LabelOfLargestUnit ==
    rel.called =>
        IF rel.date.t # "date" THEN rel.run.result.text = ""
        ELSE IF AgeSeconds < JustNowSeconds
        THEN rel.run.result.text = "just now"
        ELSE /\ rel.run.result.n >= 1
             /\ rel.run.result.unit = LargestUnit(AgeSeconds)
             /\ rel.run.result.text
                    = ToString(rel.run.result.n) \o rel.run.result.unit
                          \o " ago"

====
